---- MODULE Spec2Model ----
(***************************************************************************)
(* Formula engine of the excel-data-table grid (src/src/App.tsx): the      *)
(* reference codec, the formula parser, the expression evaluator, the      *)
(* memoising read (getCellValue), the edit with cascading invalidation     *)
(* (handleCellChange / updateDependentCells) and the drag fill             *)
(* (handleDragEnd / handleFormulaCopy / handleValueCopy) with its deferred *)
(* re-read.                                                                *)
(*                                                                         *)
(* A JavaScript string is a sequence of one-character strings.  The        *)
(* characters that occur are the upper-case letters, the decimal digits,   *)
(* the space and "=", "+", "-", "*", "/", "."; a number is an exact        *)
(* rational (or NaN), which is what IEEE doubles compute on the small      *)
(* dyadic values the inputs below produce.                                 *)
(***************************************************************************)
EXTENDS Integers, Sequences, FiniteSets, TLC

VARIABLES
    editedData,        \* App.tsx:90  raw text per cell key
    calculatedValues,  \* App.tsx:91  memoised result per cell key
    dependencies,      \* App.tsx:94  cell keys read by the last evaluation
    isDragging,        \* App.tsx:246
    dragStartCell,     \* App.tsx:247
    dragEndCell,       \* App.tsx:248
    timers,            \* setTimeout callbacks of handleFormulaCopy not yet run
    op,                \* the handler that ran last, with its arguments and result
    steps,             \* number of handlers run so far
    inp                \* the structured input of the pure-function specifications

vars == <<editedData, calculatedValues, dependencies, isDragging,
          dragStartCell, dragEndCell, timers, op, steps, inp>>

----------------------------------------------------------------------------
(* Characters and strings                                                  *)

Letters == <<"A","B","C","D","E","F","G","H","I","J","K","L","M",
             "N","O","P","Q","R","S","T","U","V","W","X","Y","Z">>

Digits == <<"0","1","2","3","4","5","6","7","8","9">>

IsUpper(c) == \E i \in 1..Len(Letters) : Letters[i] = c

IsDigit(c) == \E i \in 1..Len(Digits) : Digits[i] = c

\* charCodeAt(i) - 'A'.charCodeAt(0)
LetterIndex(c) == CHOOSE i \in 0..25 : Letters[i + 1] = c

DigitValue(c) == CHOOSE i \in 0..9 : Digits[i + 1] = c

IsSpace(c) == c = " "

Null == [type |-> "null"]

\* an absent property of a Record<string, ...>
Absent == <<"absent">>

startsWith(s, c) == Len(s) > 0 /\ s[1] = c

RECURSIVE TrimLeft(_)
TrimLeft(s) ==
    IF Len(s) > 0 /\ IsSpace(s[1]) THEN TrimLeft(Tail(s)) ELSE s

RECURSIVE TrimRight(_)
TrimRight(s) ==
    IF Len(s) > 0 /\ IsSpace(s[Len(s)])
    THEN TrimRight(SubSeq(s, 1, Len(s) - 1))
    ELSE s

\* String.prototype.trim
trim(s) == TrimRight(TrimLeft(s))

\* s.split(/([..])/).filter(Boolean): the runs between separator characters
\* and the separators themselves, empty strings dropped
RECURSIVE SplitFrom(_, _, _, _, _)
SplitFrom(s, seps, i, cur, acc) ==
    IF i > Len(s)
    THEN IF cur = <<>> THEN acc ELSE Append(acc, cur)
    ELSE IF s[i] \in seps
         THEN SplitFrom(s, seps, i + 1, <<>>,
                        Append(IF cur = <<>> THEN acc ELSE Append(acc, cur),
                               <<s[i]>>))
         ELSE SplitFrom(s, seps, i + 1, Append(cur, s[i]), acc)

splitKeep(s, seps) == SplitFrom(s, seps, 1, <<>>, <<>>)

----------------------------------------------------------------------------
(* Numbers: NaN, or the rational n/d in lowest terms with d > 0            *)

NaN == [nan |-> TRUE, n |-> 0, d |-> 1]

Abs(x) == IF x < 0 THEN -x ELSE x

RECURSIVE Gcd(_, _)
Gcd(a, b) == IF b = 0 THEN a ELSE Gcd(b, a % b)

Rat(n, d) ==
    LET s == IF d < 0 THEN -1 ELSE 1
        g == Gcd(Abs(n), Abs(d))
    IN  [nan |-> FALSE, n |-> (s * n) \div g, d |-> (s * d) \div g]

Num(n) == Rat(n, 1)

isNaN(x) == x.nan

NumAdd(x, y) ==
    IF x.nan \/ y.nan THEN NaN ELSE Rat(x.n * y.d + y.n * x.d, x.d * y.d)

NumSub(x, y) ==
    IF x.nan \/ y.nan THEN NaN ELSE Rat(x.n * y.d - y.n * x.d, x.d * y.d)

NumMul(x, y) ==
    IF x.nan \/ y.nan THEN NaN ELSE Rat(x.n * y.n, x.d * y.d)

\* only used with y # 0 (a zero divisor throws before the division)
NumDiv(x, y) ==
    IF x.nan \/ y.nan THEN NaN ELSE Rat(x.n * y.d, x.d * y.n)

IsZero(x) == ~x.nan /\ x.n = 0

RECURSIVE Pow10(_)
Pow10(k) == IF k = 0 THEN 1 ELSE 10 * Pow10(k - 1)

\* the decimal digits of a natural number
RECURSIVE NatToStr(_)
NatToStr(n) ==
    IF n < 10 THEN <<Digits[n + 1]>>
    ELSE Append(NatToStr(n \div 10), Digits[(n % 10) + 1])

IntToStr(n) == IF n < 0 THEN <<"-">> \o NatToStr(-n) ELSE NatToStr(n)

\* the digits after the decimal point of r/d, 0 <= r < d, for a fraction
\* whose expansion terminates
RECURSIVE FracDigits(_, _)
FracDigits(r, d) ==
    IF r = 0 THEN <<>>
    ELSE <<Digits[((10 * r) \div d) + 1]>> \o FracDigits((10 * r) % d, d)

\* Number.prototype.toString for NaN, integers and terminating fractions
NumToString(x) ==
    IF x.nan THEN <<"N", "a", "N">>
    ELSE LET a == Abs(x.n)
             whole == NatToStr(a \div x.d)
             frac == FracDigits(a % x.d, x.d)
         IN  (IF x.n < 0 THEN <<"-">> ELSE <<>>)
             \o whole
             \o (IF frac = <<>> THEN <<>> ELSE <<".">> \o frac)

\* the value of a run of digits read from position i: <<value, count, next>>
RECURSIVE ReadDigits(_, _, _, _)
ReadDigits(s, i, v, k) ==
    IF i <= Len(s) /\ IsDigit(s[i])
    THEN ReadDigits(s, i + 1, 10 * v + DigitValue(s[i]), k + 1)
    ELSE <<v, k, i>>

\* parseInt of a string of digits (the \d+ group of a reference)
parseInt(s) == ReadDigits(s, 1, 0, 0)[1]

\* 1 when s has a sign at position i, else 0
SignLen(s, i) == IF i <= Len(s) /\ s[i] \in {"+", "-"} THEN 1 ELSE 0

\* the fraction after the integer part that ends before position j
FracPart(s, j) ==
    IF j <= Len(s) /\ s[j] = "." THEN ReadDigits(s, j + 1, 0, 0)
    ELSE <<0, 0, j>>

\* the exponent after the mantissa that ends before position j
ExpPart(s, j) ==
    IF j <= Len(s) /\ s[j] = "E"
    THEN ReadDigits(s, j + 1 + SignLen(s, j + 1), 0, 0)
    ELSE <<0, 0, j>>

ScaleBy(mant, ep, eNeg) ==
    IF ep[2] = 0 THEN mant
    ELSE IF eNeg THEN NumDiv(mant, Num(Pow10(ep[1])))
    ELSE NumMul(mant, Num(Pow10(ep[1])))

SignedBy(neg, x) == IF neg THEN NumSub(Num(0), x) ELSE x

ParseMantissa(s, ip, fp) ==
    IF ip[2] = 0 /\ fp[2] = 0 THEN NaN
    ELSE SignedBy(startsWith(s, "-"),
                  ScaleBy(Rat(ip[1] * Pow10(fp[2]) + fp[1], Pow10(fp[2])),
                          ExpPart(s, fp[3]),
                          fp[3] + 1 <= Len(s) /\ s[fp[3] + 1] = "-"))

ParseInteger(s, ip) == ParseMantissa(s, ip, FracPart(s, ip[3]))

ParseTrimmed(s) == ParseInteger(s, ReadDigits(s, 1 + SignLen(s, 1), 0, 0))

\* parseFloat: leading white space, an optional sign, digits, an optional
\* fraction, an optional exponent; what follows is ignored; NaN when no digit
\* is found
parseFloat(str) == ParseTrimmed(TrimLeft(str))

----------------------------------------------------------------------------
(* Reference codec and formula parser                                      *)

\* /^[A-Z]+\d+$/ : the number of leading upper-case letters of s
RECURSIVE UpperRun(_, _)
UpperRun(s, i) ==
    IF i <= Len(s) /\ IsUpper(s[i]) THEN UpperRun(s, i + 1) ELSE i - 1

RECURSIVE DigitRun(_, _)
DigitRun(s, i) ==
    IF i <= Len(s) /\ IsDigit(s[i]) THEN DigitRun(s, i + 1) ELSE i - 1

IsCellRef(s) ==
    LET u == UpperRun(s, 1)
        d == DigitRun(s, u + 1)
    IN  u >= 1 /\ d > u /\ d = Len(s)

RECURSIVE ColValue(_, _, _)
ColValue(colStr, i, col) ==
    IF i > Len(colStr) THEN col
    ELSE ColValue(colStr, i + 1, col * 26 + (LetterIndex(colStr[i]) + 1))

\* a decoding that makes the row 0-based like the column
PositionOf_RowDecremented(cellRef, u) ==
    [col |-> ColValue(SubSeq(cellRef, 1, u), 1, 0) - 1,
     row |-> parseInt(SubSeq(cellRef, u + 1, Len(cellRef))) - 1]

PositionOf(cellRef, u) ==
    [col |-> ColValue(SubSeq(cellRef, 1, u), 1, 0) - 1,
     row |-> parseInt(SubSeq(cellRef, u + 1, Len(cellRef)))]

\* getCellPosition of a string that matches the pattern (every caller tests
\* the pattern first, so the throw of line 26 is never taken)
getCellPosition(cellRef) == PositionOf(cellRef, UpperRun(cellRef, 1))

\* a parser that splits on the four operators at once
parseFormula_OneSplit(formula) ==
    IF ~startsWith(formula, "=") THEN Null
    ELSE IF Len(splitKeep(trim(Tail(formula)), {"+", "-", "*", "/"})) = 1
    THEN [type |-> "value", value |-> trim(Tail(formula)), parts |-> <<>>]
    ELSE [type |-> "expression", value |-> <<>>,
          parts |-> splitKeep(trim(Tail(formula)), {"+", "-", "*", "/"})]

\* parseFormula; the result is Null, a value or an expression
parseFormula(formula) ==
    IF ~startsWith(formula, "=") THEN Null
    ELSE LET expression == trim(Tail(formula))
             addSubtractParts == splitKeep(expression, {"+", "-"})
         IN  IF Len(addSubtractParts) = 1
             THEN LET mulDivParts == splitKeep(addSubtractParts[1], {"*", "/"})
                  IN  IF Len(mulDivParts) = 1
                      THEN [type |-> "value", value |-> trim(mulDivParts[1]),
                            parts |-> <<>>]
                      ELSE [type |-> "expression", value |-> <<>>,
                            parts |-> mulDivParts]
             ELSE [type |-> "expression", value |-> <<>>,
                   parts |-> addSubtractParts]

----------------------------------------------------------------------------
(* Expression evaluator.  A cell key `${row}-${col}` is the pair           *)
(* <<row, col>>.  An evaluation step yields a record whose field err is    *)
(* "" or the kind of the exception thrown.                                 *)

\* record[key] || ''
RawOf(data, key) == IF key \in DOMAIN data THEN data[key] ELSE <<>>

\* parts[i] of a JavaScript array (0-based), Absent when out of range
JsAt(parts, i) == IF i >= 0 /\ i < Len(parts) THEN parts[i + 1] ELSE Absent

KeyOf(p) == <<p.row, p.col>>

ReferenceKey(o) == IF IsCellRef(o) THEN KeyOf(getCellPosition(o)) ELSE Null

\* parseCellReference of a defined operand: the key, or Null
parseCellReference(operand) == ReferenceKey(trim(operand))

\* value && !isNaN(parseFloat(value)) ? value : '0'
NumericOrZero(value) ==
    IF value # <<>> /\ ~isNaN(parseFloat(value)) THEN value ELSE <<"0">>

ResolveKey(operand, depKey, data, deps) ==
    IF depKey # Null
    THEN [err |-> "", value |-> NumericOrZero(RawOf(data, depKey)),
          deps |-> Append(deps, depKey)]
    ELSE [err |-> "", value |-> operand, deps |-> deps]

\* a resolution that takes the memoised result of the referenced cell when
\* there is one
ResolveKeyFromCache(operand, depKey, data, deps) ==
    IF depKey # Null /\ depKey \in DOMAIN calculatedValues
       /\ calculatedValues[depKey] # <<"absent">>
    THEN [err |-> "", value |-> calculatedValues[depKey],
          deps |-> Append(deps, depKey)]
    ELSE ResolveKey(operand, depKey, data, deps)

evaluateOperand_FromCache(operand, data, deps) ==
    IF operand = Absent
    THEN [err |-> "TypeError", value |-> <<>>, deps |-> deps]
    ELSE ResolveKeyFromCache(operand, parseCellReference(operand), data, deps)

\* evaluateOperand; operand.trim() on an undefined operand throws a TypeError
evaluateOperand(operand, data, deps) ==
    IF operand = Absent
    THEN [err |-> "TypeError", value |-> <<>>, deps |-> deps]
    ELSE ResolveKey(operand, parseCellReference(operand), data, deps)

\* parts.splice(i - 1, 3, str), i the 0-based index of the operator
Splice(parts, i, str) ==
    SubSeq(parts, 1, i - 1) \o <<str>> \o SubSeq(parts, i + 3, Len(parts))

RECURSIVE MultiplyDivideLoop(_, _, _, _)

\* lines 131-138 for the operator at index i; i--; i += 2
MultiplyDivideApply(parts, i, data, deps, leftValue, rightValue) ==
    IF JsAt(parts, i) = <<"/">> /\ IsZero(rightValue)
    THEN [err |-> "DivisionByZero", parts |-> parts, deps |-> deps]
    ELSE MultiplyDivideLoop(
             Splice(parts, i,
                    NumToString(IF JsAt(parts, i) = <<"*">>
                                THEN NumMul(leftValue, rightValue)
                                ELSE NumDiv(leftValue, rightValue))),
             (i - 1) + 2, data, deps)

MultiplyDivideRight(parts, i, data, l, r) ==
    IF r.err # "" THEN [err |-> r.err, parts |-> parts, deps |-> r.deps]
    ELSE MultiplyDivideApply(parts, i, data, r.deps,
                             parseFloat(l.value), parseFloat(r.value))

MultiplyDivideLeft(parts, i, data, l) ==
    IF l.err # "" THEN [err |-> l.err, parts |-> parts, deps |-> l.deps]
    ELSE MultiplyDivideRight(parts, i, data, l,
                             evaluateOperand(JsAt(parts, i + 1), data, l.deps))

\* the while loop of processMultiplyDivide from index i (0-based, as in the
\* source) on
MultiplyDivideLoop(parts, i, data, deps) ==
    IF ~(i < Len(parts)) THEN [err |-> "", parts |-> parts, deps |-> deps]
    ELSE IF JsAt(parts, i) = <<"*">> \/ JsAt(parts, i) = <<"/">>
    THEN MultiplyDivideLeft(parts, i, data,
                            evaluateOperand(JsAt(parts, i - 1), data, deps))
    ELSE MultiplyDivideLoop(parts, i + 2, data, deps)

processMultiplyDivide(parts, data, deps) ==
    MultiplyDivideLoop(parts, 1, data, deps)

RECURSIVE AddSubtractLoop(_, _, _, _, _)

\* a fold that adds whatever the operator is
AddSubtractApply_AlwaysAdd(parts, i, result, data, v) ==
    IF v.err # "" THEN [err |-> v.err, result |-> <<>>, deps |-> v.deps]
    ELSE AddSubtractLoop(parts, i + 2, NumAdd(result, parseFloat(v.value)),
                         data, v.deps)

AddSubtractApply(parts, i, result, data, v) ==
    IF v.err # "" THEN [err |-> v.err, result |-> <<>>, deps |-> v.deps]
    ELSE AddSubtractLoop(parts, i + 2,
                         IF JsAt(parts, i) = <<"+">>
                         THEN NumAdd(result, parseFloat(v.value))
                         ELSE NumSub(result, parseFloat(v.value)),
                         data, v.deps)

\* the for loop of processAddSubtract from index i on
AddSubtractLoop(parts, i, result, data, deps) ==
    IF ~(i < Len(parts))
    THEN [err |-> "", result |-> NumToString(result), deps |-> deps]
    ELSE AddSubtractApply(parts, i, result, data,
                          evaluateOperand(JsAt(parts, i + 1), data, deps))

AddSubtractFirst(parts, data, first) ==
    IF first.err # ""
    THEN [err |-> first.err, result |-> <<>>, deps |-> first.deps]
    ELSE AddSubtractLoop(parts, 1, parseFloat(first.value), data, first.deps)

processAddSubtract(parts, data, deps) ==
    AddSubtractFirst(parts, data, evaluateOperand(JsAt(parts, 0), data, deps))

EvaluateParts(md, data) ==
    IF md.err # "" THEN [err |-> md.err, result |-> <<>>, deps |-> <<>>]
    ELSE processAddSubtract(md.parts, data, md.deps)

ValueResult(e) == [err |-> e.err, result |-> e.value, deps |-> e.deps]

\* evaluateFormula: {result, dependencies}, or the exception
evaluateFormula(formula, data) ==
    IF formula.type = "value"
    THEN ValueResult(evaluateOperand(formula.value, data, <<>>))
    ELSE EvaluateParts(processMultiplyDivide(formula.parts, data, <<>>), data)

\* `Error: ${error}` of line 198; the message of the TypeError is the
\* JavaScript engine's and is not spelled out
ErrorString(err) ==
    IF err = "DivisionByZero"
    THEN <<"E","r","r","o","r",":"," ","E","r","r","o","r",":"," ",
           "D","i","v","i","s","i","o","n"," ","b","y"," ","z","e","r","o">>
    ELSE <<"E","r","r","o","r",":"," ","T","y","p","e","E","r","r","o","r">>

----------------------------------------------------------------------------
(* Bounds and inputs of the state machine                                  *)

\* the materialized rows are 1..MaxRow (rowIndices), the columns 0..MaxCol
MaxRow == 2

MaxCol == 1

\* handlers run in one behaviour
MaxSteps == 5

\* fill timers that may be pending at once
MaxTimers == 1

Rows == 1..MaxRow

Cols == 0..MaxCol

Keys == Rows \X Cols

\* the texts an edit may commit: "5", "A1", "=A1+1" and "=B1+1"
EditInputs ==
    { <<"5">>,
      <<"A", "1">>,
      <<"=", "A", "1", "+", "1">>,
      <<"=", "B", "1", "+", "1">> }

Range(f) == {f[i] : i \in DOMAIN f}

\* the last handler call; rendered says whether the component has rendered
\* since that call
NoOp == [name |-> "init", key |-> <<0, 0>>, value |-> <<>>, ret |-> <<>>,
         completed |-> TRUE, source |-> <<0, 0>>, cells |-> <<>>,
         rendered |-> FALSE, rets |-> <<>>, formula |-> Null]

----------------------------------------------------------------------------
(* Value / cache store: getCellValue                                       *)

\* an outcome that stores the error string like a result
EvaluationOutcome_ErrorCached(e) ==
    IF e.err # ""
    THEN [ret |-> ErrorString(e.err), set |-> TRUE, deps |-> e.deps,
          result |-> ErrorString(e.err)]
    ELSE [ret |-> e.result, set |-> TRUE, deps |-> e.deps,
          result |-> e.result]

\* lines 190-199: the outcome of the evaluation e
EvaluationOutcome(e) ==
    IF e.err # ""
    THEN [ret |-> ErrorString(e.err), set |-> FALSE, deps |-> <<>>,
          result |-> <<>>]
    ELSE [ret |-> e.result, set |-> TRUE, deps |-> e.deps,
          result |-> e.result]

CachedOf(calc, key) == IF key \in DOMAIN calc THEN calc[key] ELSE Absent

\* a read that stores plain values in the cache as well
getCellValue_PlainCached(key, data, calc) ==
    IF CachedOf(calc, key) # Absent /\ CachedOf(calc, key) # <<>>
    THEN [ret |-> CachedOf(calc, key), set |-> FALSE, deps |-> <<>>,
          result |-> <<>>]
    ELSE IF ~startsWith(RawOf(data, key), "=")
    THEN [ret |-> RawOf(data, key), set |-> TRUE, deps |-> <<>>,
          result |-> RawOf(data, key)]
    ELSE EvaluationOutcome(
             evaluateFormula(parseFormula(RawOf(data, key)), data))

\* a read that resets the dependency list of a cell on a cache hit
getCellValue_HitRecorded(key, data, calc) ==
    IF CachedOf(calc, key) # Absent /\ CachedOf(calc, key) # <<>>
    THEN [ret |-> CachedOf(calc, key), set |-> TRUE, deps |-> <<>>,
          result |-> CachedOf(calc, key)]
    ELSE IF ~startsWith(RawOf(data, key), "=")
    THEN [ret |-> RawOf(data, key), set |-> FALSE, deps |-> <<>>,
          result |-> <<>>]
    ELSE EvaluationOutcome(
             evaluateFormula(parseFormula(RawOf(data, key)), data))

\* getCellValue(rowIdx, colIdx) run in a closure that holds the raw values
\* `data` and the cache `calc`: the string returned and, when the evaluation
\* succeeded, the dependency list and the result handed to the two setters
getCellValue(key, data, calc) ==
    IF CachedOf(calc, key) # Absent /\ CachedOf(calc, key) # <<>>
    THEN [ret |-> CachedOf(calc, key), set |-> FALSE, deps |-> <<>>,
          result |-> <<>>]
    ELSE IF ~startsWith(RawOf(data, key), "=")
    THEN [ret |-> RawOf(data, key), set |-> FALSE, deps |-> <<>>,
          result |-> <<>>]
    ELSE EvaluationOutcome(
             evaluateFormula(parseFormula(RawOf(data, key)), data))

\* state updates that add the new dependency list to the recorded one
ApplyRead_Merged(key, r) ==
    /\ dependencies' =
          IF r.set
          THEN [dependencies EXCEPT
                   ![key] = (IF dependencies[key] = Absent THEN <<>>
                             ELSE dependencies[key]) \o r.deps]
          ELSE dependencies
    /\ calculatedValues' =
          IF r.set THEN [calculatedValues EXCEPT ![key] = r.result]
          ELSE calculatedValues
    /\ op' = [NoOp EXCEPT !.name = "read", !.key = key, !.ret = r.ret]

\* the two functional state updates of lines 192-193
ApplyRead(key, r) ==
    /\ dependencies' =
          IF r.set THEN [dependencies EXCEPT ![key] = r.deps]
          ELSE dependencies
    /\ calculatedValues' =
          IF r.set THEN [calculatedValues EXCEPT ![key] = r.result]
          ELSE calculatedValues
    /\ op' = [NoOp EXCEPT !.name = "read", !.key = key, !.ret = r.ret]

\* a render-time read of one cell: getCellValue in the closure of the current
\* state, followed by its state updates
Read(key) ==
    /\ steps < MaxSteps
    /\ ApplyRead(key, getCellValue(key, editedData, calculatedValues))
    /\ steps' = steps + 1
    /\ UNCHANGED <<editedData, isDragging, dragStartCell, dragEndCell,
                   timers, inp>>

----------------------------------------------------------------------------
(* Dependency graph: updateDependentCells and handleCellChange             *)

\* the deepest recursion the call stack is given: a chain of dependents
\* longer than the number of cells goes round a cycle and never ends
StackLimit == Cardinality(Keys)

\* an invalidation that stops at the direct dependents
updateDependentCells_DirectOnly(changedKey, deps, depth) ==
    [overflow |-> FALSE,
     deleted |-> {k \in DOMAIN deps :
                     deps[k] # Absent /\ changedKey \in Range(deps[k])}]

\* an invalidation with a cycle guard: the walk stops where it would revisit
RECURSIVE updateDependentCells_Guarded(_, _, _)
updateDependentCells_Guarded(changedKey, deps, depth) ==
    IF depth > StackLimit THEN [overflow |-> FALSE, deleted |-> {}]
    ELSE LET dependentCells ==
                 {k \in DOMAIN deps :
                     deps[k] # Absent /\ changedKey \in Range(deps[k])}
             sub == [k \in dependentCells |->
                        updateDependentCells_Guarded(k, deps, depth + 1)]
         IN  [overflow |-> FALSE,
              deleted |-> dependentCells
                          \cup UNION {sub[k].deleted : k \in dependentCells}]

\* updateDependentCells(changedKey) at recursion depth `depth`: the keys
\* whose cache entry it deletes, and whether the recursion overflows
RECURSIVE updateDependentCells(_, _, _)
updateDependentCells(changedKey, deps, depth) ==
    IF depth > StackLimit THEN [overflow |-> TRUE, deleted |-> {}]
    ELSE LET dependentCells ==
                 {k \in DOMAIN deps :
                     deps[k] # Absent /\ changedKey \in Range(deps[k])}
             sub == [k \in dependentCells |->
                        updateDependentCells(k, deps, depth + 1)]
         IN  [overflow |-> \E k \in dependentCells : sub[k].overflow,
              deleted |-> dependentCells
                          \cup UNION {sub[k].deleted : k \in dependentCells}]

\* a deletion that clears the whole cache
DeleteKeys_All(calc, ks) == [k \in DOMAIN calc |-> Absent]

\* delete newValues[key] for every key of ks
DeleteKeys(calc, ks) ==
    [k \in DOMAIN calc |-> IF k \in ks THEN Absent ELSE calc[k]]

\* handleCellChange(rowIndex, colIndex, newValue).  When the recursion of
\* updateDependentCells overflows the stack the handler is left by the
\* exception; the updates queued before it are applied, and how many
\* dependents had been reached by then depends on the order of the walk.
handleCellChange(key, newValue) ==
    /\ steps < MaxSteps
    /\ LET u == updateDependentCells(key, dependencies, 1)
           direct == {k \in DOMAIN dependencies :
                         dependencies[k] # Absent
                         /\ key \in Range(dependencies[k])}
       IN  /\ editedData' = [editedData EXCEPT ![key] = newValue]
           /\ IF u.overflow
              THEN \E S \in SUBSET u.deleted :
                       /\ direct \subseteq S
                       /\ calculatedValues' =
                             DeleteKeys(calculatedValues, S \cup {key})
              ELSE calculatedValues' =
                       DeleteKeys(calculatedValues, u.deleted \cup {key})
           /\ op' = [NoOp EXCEPT !.name = "edit", !.key = key,
                                 !.value = newValue,
                                 !.completed = ~u.overflow]
    /\ steps' = steps + 1
    /\ UNCHANGED <<dependencies, isDragging, dragStartCell, dragEndCell,
                   timers, inp>>

----------------------------------------------------------------------------
(* Fill adjuster: adjustFormulaForCell                                     *)

\* a loop that takes the letters as the digits of a plain base-26 number
RECURSIVE ColLetters_Base26(_, _)
ColLetters_Base26(tempCol, newColStr) ==
    IF tempCol > 0
    THEN ColLetters_Base26(tempCol \div 26,
                           <<Letters[(tempCol % 26) + 1]>> \o newColStr)
    ELSE newColStr

\* the while loop of lines 295-299: the letters of column tempCol - 1
RECURSIVE ColLetters(_, _)
ColLetters(tempCol, newColStr) ==
    IF tempCol > 0
    THEN ColLetters((tempCol - 1) \div 26,
                    <<Letters[((tempCol - 1) % 26) + 1]>> \o newColStr)
    ELSE newColStr

\* a replacement that leaves the row as written
AdjustReference_RowKept(colStr, rowStr, rowDiff, colDiff) ==
    ColLetters(getCellPosition(colStr \o rowStr).col + colDiff + 1, <<>>)
    \o rowStr

\* a replacement that keeps a reference whose shift leaves the sheet
AdjustReference_Rejecting(colStr, rowStr, rowDiff, colDiff) ==
    IF \/ getCellPosition(colStr \o rowStr).col + colDiff < 0
       \/ getCellPosition(colStr \o rowStr).row + rowDiff <= 0
    THEN colStr \o rowStr
    ELSE ColLetters(getCellPosition(colStr \o rowStr).col + colDiff + 1, <<>>)
         \o IntToStr(getCellPosition(colStr \o rowStr).row + rowDiff)

\* the replacement callback of lines 286-302 for one match colStr rowStr
AdjustReference(colStr, rowStr, rowDiff, colDiff) ==
    LET p == getCellPosition(colStr \o rowStr)
        newCol == p.col + colDiff
        newRow == p.row + rowDiff
    IN  ColLetters(newCol + 1, <<>>) \o IntToStr(newRow)

\* formula.replace(/([A-Z]+)(\d+)/g, callback) from position i on: a match is
\* a maximal run of upper-case letters directly followed by a maximal run of
\* digits; every other character is copied
RECURSIVE ReplaceFrom(_, _, _, _)
ReplaceFrom(formula, i, rowDiff, colDiff) ==
    IF i > Len(formula) THEN <<>>
    ELSE LET u == UpperRun(formula, i)
             d == DigitRun(formula, u + 1)
         IN  IF u >= i /\ d > u
             THEN AdjustReference(SubSeq(formula, i, u),
                                  SubSeq(formula, u + 1, d), rowDiff, colDiff)
                  \o ReplaceFrom(formula, d + 1, rowDiff, colDiff)
             ELSE IF u >= i
             THEN SubSeq(formula, i, u)
                  \o ReplaceFrom(formula, u + 1, rowDiff, colDiff)
             ELSE <<formula[i]>> \o ReplaceFrom(formula, i + 1, rowDiff, colDiff)

\* a cell {row, col} is the pair <<row, col>>
adjustFormulaForCell(formula, sourceCell, targetCell) ==
    LET rowDiff == targetCell[1] - sourceCell[1]
        colDiff == targetCell[2] - sourceCell[2]
    IN  ReplaceFrom(formula, 1, rowDiff, colDiff)

----------------------------------------------------------------------------
(* Drag selection and fill                                                 *)

NoCell == <<0, 0>>

Min(a, b) == IF a < b THEN a ELSE b

Max(a, b) == IF a > b THEN a ELSE b

\* the cells of rows lo..hi of the box, row by row
RECURSIVE BoxRows(_, _, _, _)
BoxRows(row, endRow, startCol, endCol) ==
    IF row > endRow THEN <<>>
    ELSE [i \in 1..(endCol - startCol + 1) |-> <<row, startCol + i - 1>>]
         \o BoxRows(row + 1, endRow, startCol, endCol)

\* a selection that runs from the start cell down and right only
getSelectedCells_FromStart(startCell, endCell) ==
    BoxRows(startCell[1], endCell[1], startCell[2], endCell[2])

getSelectedCells(startCell, endCell) ==
    BoxRows(Min(startCell[1], endCell[1]), Max(startCell[1], endCell[1]),
            Min(startCell[2], endCell[2]), Max(startCell[2], endCell[2]))

\* cells.forEach with the early return on the source cell: the target keys
RECURSIVE TargetsOf(_, _)
TargetsOf(cells, sourceCell) ==
    IF cells = <<>> THEN <<>>
    ELSE IF Head(cells) = sourceCell THEN TargetsOf(Tail(cells), sourceCell)
    ELSE <<Head(cells)>> \o TargetsOf(Tail(cells), sourceCell)

\* newEditedData of handleFormulaCopy
FormulaCopyData(data, cellsToUpdate, sourceCell, sourceValue) ==
    [k \in DOMAIN data |->
        IF k \in Range(cellsToUpdate)
        THEN adjustFormulaForCell(sourceValue, sourceCell, k)
        ELSE data[k]]

\* newEditedData of handleValueCopy
ValueCopyData(data, targets, sourceValue) ==
    [k \in DOMAIN data |->
        IF k \in Range(targets) THEN sourceValue ELSE data[k]]

handleDragStart(cell) ==
    /\ steps < MaxSteps
    /\ isDragging' = TRUE
    /\ dragStartCell' = cell
    /\ dragEndCell' = cell
    /\ op' = [NoOp EXCEPT !.name = "dragStart", !.key = cell]
    /\ steps' = steps + 1
    /\ UNCHANGED <<editedData, calculatedValues, dependencies, timers, inp>>

\* a drag-over that does not test isDragging
handleDragOver_Unguarded(cell) ==
    /\ steps < MaxSteps
    /\ dragEndCell' = cell
    /\ op' = [NoOp EXCEPT !.name = "dragOver", !.key = cell]
    /\ steps' = steps + 1
    /\ UNCHANGED <<editedData, calculatedValues, dependencies, isDragging,
                   dragStartCell, timers, inp>>

handleDragOver(cell) ==
    /\ steps < MaxSteps
    /\ isDragging
    /\ dragEndCell' = cell
    /\ op' = [NoOp EXCEPT !.name = "dragOver", !.key = cell]
    /\ steps' = steps + 1
    /\ UNCHANGED <<editedData, calculatedValues, dependencies, isDragging,
                   dragStartCell, timers, inp>>

\* a formula fill that leaves the cache as it is
handleFormulaCopy_CacheKept(cells, sourceCell, sourceValue) ==
    /\ Len(timers) < MaxTimers
    /\ editedData' = FormulaCopyData(editedData, TargetsOf(cells, sourceCell),
                                     sourceCell, sourceValue)
    /\ timers' = Append(timers, [cells |-> TargetsOf(cells, sourceCell),
                                 data |-> editedData,
                                 calc |-> calculatedValues])
    /\ op' = [NoOp EXCEPT !.name = "dragEnd", !.source = sourceCell,
                          !.value = sourceValue,
                          !.cells = TargetsOf(cells, sourceCell)]
    /\ UNCHANGED calculatedValues

\* handleFormulaCopy: the batch of raw writes, the deletion of the targets'
\* cache entries, and the timer whose callback calls the getCellValue of the
\* render that created this handler
handleFormulaCopy(cells, sourceCell, sourceValue) ==
    LET cellsToUpdate == TargetsOf(cells, sourceCell)
    IN  /\ Len(timers) < MaxTimers
        /\ editedData' =
              FormulaCopyData(editedData, cellsToUpdate, sourceCell, sourceValue)
        /\ calculatedValues' =
              DeleteKeys(calculatedValues, Range(cellsToUpdate))
        /\ timers' = Append(timers, [cells |-> cellsToUpdate,
                                     data |-> editedData,
                                     calc |-> calculatedValues])
        /\ op' = [NoOp EXCEPT !.name = "dragEnd", !.source = sourceCell,
                              !.value = sourceValue, !.cells = cellsToUpdate]

\* a value copy that adjusts what looks like a reference
handleValueCopy_Adjusted(cells, sourceCell, sourceValue) ==
    /\ editedData' = FormulaCopyData(editedData, TargetsOf(cells, sourceCell),
                                     sourceCell, sourceValue)
    /\ op' = [NoOp EXCEPT !.name = "dragEnd", !.source = sourceCell,
                          !.value = sourceValue,
                          !.cells = TargetsOf(cells, sourceCell)]
    /\ UNCHANGED <<calculatedValues, timers>>

handleValueCopy(cells, sourceCell, sourceValue) ==
    LET targets == TargetsOf(cells, sourceCell)
    IN  /\ editedData' = ValueCopyData(editedData, targets, sourceValue)
        /\ op' = [NoOp EXCEPT !.name = "dragEnd", !.source = sourceCell,
                              !.value = sourceValue, !.cells = targets]
        /\ UNCHANGED <<calculatedValues, timers>>

handleDragEnd ==
    /\ steps < MaxSteps
    /\ IF isDragging /\ dragStartCell # NoCell /\ dragEndCell # NoCell
          /\ Len(getSelectedCells(dragStartCell, dragEndCell)) > 1
       THEN LET cells == getSelectedCells(dragStartCell, dragEndCell)
                sourceValue == RawOf(editedData, dragStartCell)
            IN  IF startsWith(sourceValue, "=")
                THEN handleFormulaCopy(cells, dragStartCell, sourceValue)
                ELSE handleValueCopy(cells, dragStartCell, sourceValue)
       ELSE /\ op' = [NoOp EXCEPT !.name = "dragEnd"]
            /\ UNCHANGED <<editedData, calculatedValues, timers>>
    /\ isDragging' = FALSE
    /\ dragStartCell' = NoCell
    /\ dragEndCell' = NoCell
    /\ steps' = steps + 1
    /\ UNCHANGED <<dependencies, inp>>

RECURSIVE DeferredReads(_, _, _, _)

DeferredApply(cells, t, d, c, r) ==
    DeferredReads(Tail(cells), t,
                  IF r.set THEN [d EXCEPT ![Head(cells)] = r.deps] ELSE d,
                  IF r.set THEN [c EXCEPT ![Head(cells)] = r.result] ELSE c)

\* cellsToUpdate.forEach of the timer callback: each getCellValue call runs in
\* the closure t of the render that started the fill, and its functional
\* updates are applied to the maps d and c
DeferredReads(cells, t, d, c) ==
    IF cells = <<>> THEN [deps |-> d, calc |-> c]
    ELSE DeferredApply(cells, t, d, c,
                       getCellValue(Head(cells), t.data, t.calc))

\* the strings the getCellValue calls of the callback return
DeferredReturns(t) ==
    [i \in DOMAIN t.cells |-> getCellValue(t.cells[i], t.data, t.calc).ret]

ApplyTimer(t, r) ==
    /\ dependencies' = r.deps
    /\ calculatedValues' = r.calc
    /\ op' = [NoOp EXCEPT !.name = "timer", !.cells = t.cells,
                          !.rets = DeferredReturns(t)]

\* a timer callback whose closure holds no cache
FillTimer_EmptyCache ==
    /\ timers # <<>>
    /\ ApplyTimer(Head(timers),
                  DeferredReads(Head(timers).cells,
                                [Head(timers) EXCEPT
                                    !.calc = [k \in Keys |-> Absent]],
                                dependencies, calculatedValues))
    /\ timers' = Tail(timers)
    /\ UNCHANGED <<editedData, isDragging, dragStartCell, dragEndCell,
                   steps, inp>>

\* the setTimeout callback of lines 331-336
FillTimer ==
    /\ timers # <<>>
    /\ ApplyTimer(Head(timers),
                  DeferredReads(Head(timers).cells, Head(timers),
                                dependencies, calculatedValues))
    /\ timers' = Tail(timers)
    /\ UNCHANGED <<editedData, isDragging, dragStartCell, dragEndCell,
                   steps, inp>>

----------------------------------------------------------------------------
(* The grid's state machine                                                *)

Init ==
    /\ editedData = [k \in Keys |-> <<>>]
    /\ calculatedValues = [k \in Keys |-> Absent]
    /\ dependencies = [k \in Keys |-> Absent]
    /\ isDragging = FALSE
    /\ dragStartCell = NoCell
    /\ dragEndCell = NoCell
    /\ timers = <<>>
    /\ op = NoOp
    /\ steps = 0
    /\ inp = <<>>

ReadStep == \E k \in Keys : Read(k)

EditStep == \E k \in Keys, v \in EditInputs : handleCellChange(k, v)

DragStartStep == \E c \in Keys : handleDragStart(c)

DragOverStep == \E c \in Keys : handleDragOver(c)

Next ==
    \/ ReadStep
    \/ EditStep
    \/ DragStartStep
    \/ DragOverStep
    \/ handleDragEnd
    \/ FillTimer

Spec == Init /\ [][Next]_vars

----------------------------------------------------------------------------
(* Evaluation of operator chains: the store is built from a chain given as *)
(* structure (inp) and the cells are read                                  *)

\* operands of a chain
MaxOperands == 3

\* reads of one behaviour
MaxReads == 2

A1 == <<1, 0>>

B1 == <<1, 1>>

\* the cell that holds the chain
FormulaCell == <<2, 0>>

\* raw texts of A1: "", "5", "=5", "x"; of B1: "10", "=1/0"
RawsOfA1 == { <<>>, <<"5">>, <<"=", "5">>, <<"x">> }

RawsOfB1 == { <<"1", "0">>, <<"=", "1", "/", "0">> }

\* an operand is a literal 0..2 or a reference to A1 or B1
ChainOperands ==
    [ref : {FALSE}, n : 0..2, key : {A1}] \cup [ref : {TRUE}, n : {0}, key : {A1, B1}]

ChainOperators == {"+", "-", "*", "/"}

Chains ==
    UNION {[operands : [1..n -> ChainOperands],
            ops : [1..(n - 1) -> ChainOperators]] : n \in 1..MaxOperands}

\* the text of an operand and of a chain
OperandText(o) ==
    IF o.ref THEN (IF o.key = A1 THEN <<"A", "1">> ELSE <<"B", "1">>)
    ELSE NatToStr(o.n)

RECURSIVE ChainTail(_, _)
ChainTail(c, i) ==
    IF i > Len(c.operands) THEN <<>>
    ELSE <<c.ops[i - 1]>> \o OperandText(c.operands[i]) \o ChainTail(c, i + 1)

ChainText(c) == <<"=">> \o OperandText(c.operands[1]) \o ChainTail(c, 2)

\* the number a raw text stands for, 0 for an empty, a non-numeric and a
\* formula text
RawNumber(raw) ==
    IF raw = <<"5">> THEN 5 ELSE IF raw = <<"1", "0">> THEN 10 ELSE 0

\* the resolved value of an operand
OperandNumber(o, data) == IF o.ref THEN RawNumber(data[o.key]) ELSE o.n

\* every quotient of the chain is exactly representable: a divisor is 0, 1 or 2
ExactQuotients(c, data) ==
    \A i \in DOMAIN c.ops :
        c.ops[i] = "/" => OperandNumber(c.operands[i + 1], data) \in 0..2

InitEval ==
    /\ inp \in Chains
    /\ \E a \in RawsOfA1, b \in RawsOfB1 :
          editedData = [k \in Keys |->
                           IF k = A1 THEN a
                           ELSE IF k = B1 THEN b
                           ELSE IF k = FormulaCell THEN ChainText(inp)
                           ELSE <<>>]
    /\ ExactQuotients(inp, editedData)
    /\ calculatedValues = [k \in Keys |-> Absent]
    /\ dependencies = [k \in Keys |-> Absent]
    /\ isDragging = FALSE
    /\ dragStartCell = NoCell
    /\ dragEndCell = NoCell
    /\ timers = <<>>
    /\ op = NoOp
    /\ steps = 0

EvalRead == \E k \in {A1, FormulaCell} : steps < MaxReads /\ Read(k)

NextEval == EvalRead

SpecEval == InitEval /\ [][NextEval]_vars

----------------------------------------------------------------------------
(* Claims about evaluation (SpecEval)                                      *)

NoCache == [k \in Keys |-> Absent]

\* the last handler was a read of the cell that holds the chain
ChainWasRead == op.name = "read" /\ op.key = FormulaCell

PureChain(c, operators) ==
    Len(c.ops) >= 1 /\ \A i \in DOMAIN c.ops : c.ops[i] \in operators

RefersToFormula(o) == o.ref /\ startsWith(editedData[o.key], "=")

\* the chain with every reference to a formula cell replaced by the literal 0
ZeroedChain(c) ==
    [operands |-> [i \in DOMAIN c.operands |->
                      IF RefersToFormula(c.operands[i])
                      THEN [ref |-> FALSE, n |-> 0, key |-> A1]
                      ELSE c.operands[i]],
     ops |-> c.ops]

\* what a read returns for the text f in the chain's cell, nothing cached
FreshRead(f) ==
    getCellValue(FormulaCell, [editedData EXCEPT ![FormulaCell] = f], NoCache).ret

ChainOfA1Plus1 ==
    [operands |-> <<[ref |-> TRUE, n |-> 0, key |-> A1],
                    [ref |-> FALSE, n |-> 1, key |-> A1]>>,
     ops |-> <<"+">>]

\* every operand of the chain is a token of the parsed formula: the chain has
\* one operand, or only additive, or only multiplicative operators
OperandsAreTokens(c) ==
    \/ \A i \in DOMAIN c.ops : c.ops[i] \in {"+", "-"}
    \/ \A i \in DOMAIN c.ops : c.ops[i] \in {"*", "/"}

\* C4: a reference operand whose cell has a raw text that starts with "="
\* resolves to 0, whatever the cache holds for that cell: the read of the
\* chain returns what it returns with those references replaced by the
\* literal 0, and with A1 = "=5" the chain "=A1+1" reads "1".
C4_ReferenceResolvesRawText ==
    (ChainWasRead /\ OperandsAreTokens(inp)) =>
        /\ op.ret = FreshRead(ChainText(ZeroedChain(inp)))
        /\ (editedData[A1] = <<"=", "5">> /\ inp = ChainOfA1Plus1)
               => op.ret = <<"1">>

C4_Witness ==
    /\ ChainWasRead
    /\ inp = ChainOfA1Plus1
    /\ editedData[A1] = <<"=", "5">>
    /\ calculatedValues[A1] = <<"5">>
    /\ op.ret = <<"1">>

\* the left-to-right sum/difference of the resolved operands from operand i on
RECURSIVE SumFrom(_, _, _)
SumFrom(c, i, acc) ==
    IF i > Len(c.operands) THEN acc
    ELSE SumFrom(c, i + 1,
                 IF c.ops[i - 1] = "+"
                 THEN acc + OperandNumber(c.operands[i], editedData)
                 ELSE acc - OperandNumber(c.operands[i], editedData))

ChainSum(c) == SumFrom(c, 2, OperandNumber(c.operands[1], editedData))

ReferencedCells(c) ==
    {c.operands[i].key : i \in {j \in DOMAIN c.operands : c.operands[j].ref}}

ChainOfA1PlusB1 ==
    [operands |-> <<[ref |-> TRUE, n |-> 0, key |-> A1],
                    [ref |-> TRUE, n |-> 0, key |-> B1]>>,
     ops |-> <<"+">>]

\* C5: the read of a pure chain of "+" and "-" returns the left-to-right
\* sum/difference of the resolved operands (0 for a referenced cell with empty
\* or non-numeric raw text) and records exactly the referenced cells as the
\* dependencies of the cell; A1 = "5", B1 = "10", "=A1+B1" gives "15" and
\* {A1, B1}.
C5_AdditiveChain ==
    (ChainWasRead /\ PureChain(inp, {"+", "-"})) =>
        /\ op.ret = IntToStr(ChainSum(inp))
        /\ calculatedValues[FormulaCell] = op.ret
        /\ dependencies[FormulaCell] # Absent
        /\ Range(dependencies[FormulaCell]) = ReferencedCells(inp)
        /\ (inp = ChainOfA1PlusB1 /\ editedData[A1] = <<"5">>
            /\ editedData[B1] = <<"1", "0">>)
               => (op.ret = <<"1", "5">>
                   /\ Range(dependencies[FormulaCell]) = {A1, B1})

C5_Witness ==
    /\ ChainWasRead
    /\ inp = ChainOfA1PlusB1
    /\ editedData[A1] = <<"5">>
    /\ editedData[B1] = <<"1", "0">>
    /\ op.ret = <<"1", "5">>
    /\ dependencies[FormulaCell] = <<A1, B1>>

\* the left-to-right product/quotient of the resolved operands
RECURSIVE ProductFrom(_, _, _)
ProductFrom(c, i, acc) ==
    IF i > Len(c.operands) THEN acc
    ELSE ProductFrom(c, i + 1,
                     IF c.ops[i - 1] = "*"
                     THEN NumMul(acc, Num(OperandNumber(c.operands[i], editedData)))
                     ELSE NumDiv(acc, Num(OperandNumber(c.operands[i], editedData))))

ChainProduct(c) ==
    ProductFrom(c, 2, Num(OperandNumber(c.operands[1], editedData)))

ZeroDivisor(c) ==
    \E i \in DOMAIN c.ops :
        c.ops[i] = "/" /\ OperandNumber(c.operands[i + 1], editedData) = 0

\* C6: the read of a pure chain of "*" and "/" with any number of operators
\* returns the left-to-right product/quotient of all its resolved operands.
C6_MultiplicativeChain ==
    (ChainWasRead /\ PureChain(inp, {"*", "/"}) /\ ~ZeroDivisor(inp)) =>
        op.ret = NumToString(ChainProduct(inp))

\* C7: a "/" whose right operand resolves to zero, at any position of a
\* multiplicative chain, makes the read return "Error: Error: Division by
\* zero".
C7_DivisionByZero ==
    (ChainWasRead /\ PureChain(inp, {"*", "/"}) /\ ZeroDivisor(inp)) =>
        op.ret = ErrorString("DivisionByZero")

----------------------------------------------------------------------------
(* Claims about the store, the invalidation and the fill (Spec)            *)

\* C1: a cell that has a cache entry holds the result a read without cache
\* would return for its current raw value and the current raw values of the
\* cells it references.
C1_CacheNeverStale ==
    \A k \in Keys :
        calculatedValues[k] # Absent =>
            calculatedValues[k] = getCellValue(k, editedData, NoCache).ret

DependsOnRecorded(d, k) ==
    dependencies[d] # Absent /\ k \in Range(dependencies[d])

\* d reaches k through the recorded dependency sets in at most n steps
RECURSIVE ReachesIn(_, _, _)
ReachesIn(d, k, n) ==
    \/ DependsOnRecorded(d, k)
    \/ n > 1 /\ \E x \in Keys : DependsOnRecorded(d, x) /\ ReachesIn(x, k, n - 1)

\* k and the cells that reach k through the recorded dependency sets
TransitiveDependents(k) ==
    {k} \cup {d \in Keys : ReachesIn(d, k, Cardinality(Keys))}

EditDone == steps' = steps + 1 /\ op'.name = "edit"

\* C2: after an edit of k that completes, the cache has no entry for k and
\* none for any cell that reaches k through the recorded dependency sets.
C2_EditInvalidatesDependents ==
    [][(EditDone /\ op'.completed) =>
          \A d \in TransitiveDependents(op'.key) :
              calculatedValues'[d] = Absent]_vars

\* B1 read A1 and A2 read B1; the edit of A1 cleared both
C2_Witness ==
    /\ op.name = "edit" /\ op.completed /\ op.key = A1
    /\ DependsOnRecorded(B1, A1)
    /\ DependsOnRecorded(<<2, 0>>, B1)
    /\ calculatedValues[B1] = Absent
    /\ calculatedValues[<<2, 0>>] = Absent

\* C3: an edit of a cell that no recorded dependency set contains changes the
\* raw value and removes the cache entry of that cell only; the other raw
\* values and cache entries and the whole dependency map stay.
C3_EditWithoutDependents ==
    [][(EditDone /\ \A d \in Keys : ~DependsOnRecorded(d, op'.key)) =>
          /\ editedData'[op'.key] = op'.value
          /\ calculatedValues'[op'.key] = Absent
          /\ \A c \in Keys \ {op'.key} :
                /\ editedData'[c] = editedData[c]
                /\ calculatedValues'[c] = calculatedValues[c]
          /\ dependencies' = dependencies]_vars

C3_Witness ==
    /\ op.name = "edit"
    /\ \A d \in Keys : ~DependsOnRecorded(d, op.key)
    /\ \E c \in Keys \ {op.key} : calculatedValues[c] # Absent

\* the inclusive bounding box of two cells
Box(a, b) ==
    {c \in Keys :
        /\ c[1] >= Min(a[1], b[1]) /\ c[1] <= Max(a[1], b[1])
        /\ c[2] >= Min(a[2], b[2]) /\ c[2] <= Max(a[2], b[2])}

FillDone == steps' = steps + 1 /\ op'.name = "dragEnd" /\ isDragging

\* C9: a fill whose source raw value does not start with "=" sets the raw
\* value of every cell of the region other than the source to exactly the
\* source's string.
C9_LiteralFill ==
    [][(FillDone /\ ~startsWith(editedData[dragStartCell], "=")) =>
          \A c \in Box(dragStartCell, dragEndCell) \ {dragStartCell} :
              editedData'[c] = editedData[dragStartCell]]_vars

\* the literal "A1" was filled into two or more cells
C9_Witness ==
    /\ op.name = "dragEnd"
    /\ op.value = <<"A", "1">>
    /\ Len(op.cells) >= 2
    /\ \A i \in DOMAIN op.cells : editedData[op.cells[i]] = <<"A", "1">>

\* C10: the deferred re-read that follows a formula fill observes the raw
\* values the fill committed: each of its reads returns what a read of the
\* target returns in the state the callback runs in, and after it every target
\* whose formula evaluates has that result in the cache.
C10_DeferredReadSeesFill ==
    [][(timers # <<>> /\ op'.name = "timer") =>
          \A i \in DOMAIN op'.cells :
              /\ op'.rets[i] =
                    getCellValue(op'.cells[i], editedData, calculatedValues).ret
              /\ getCellValue(op'.cells[i], editedData,
                              [k \in Keys |-> Absent]).set
                    => calculatedValues'[op'.cells[i]] # Absent]_vars

----------------------------------------------------------------------------
(* Formula fill of a formula given as structure (SpecFill)                 *)

\* operands of a filled formula
MaxFillOperands == 2

\* handlers of one fill behaviour
MaxFillSteps == 3

\* an operand is the literal 7 or a reference: A1, B2, Z9 or A0
FillOperands ==
    {[ref |-> FALSE, col |-> 0, row |-> 7],
     [ref |-> TRUE, col |-> 0, row |-> 1],
     [ref |-> TRUE, col |-> 1, row |-> 2],
     [ref |-> TRUE, col |-> 25, row |-> 9],
     [ref |-> TRUE, col |-> 0, row |-> 0]}

FillFormulas ==
    UNION {[operands : [1..n -> FillOperands],
            ops : [1..(n - 1) -> {"+", "*"}]] : n \in 1..MaxFillOperands}

\* the letters of column col, 0 <= col < 702
ColumnName(col) ==
    IF col < 26 THEN <<Letters[col + 1]>>
    ELSE <<Letters[col \div 26], Letters[(col % 26) + 1]>>

FillOperandText(o) ==
    IF o.ref THEN ColumnName(o.col) \o IntToStr(o.row) ELSE NatToStr(o.row)

RECURSIVE FillTail(_, _)
FillTail(f, i) ==
    IF i > Len(f.operands) THEN <<>>
    ELSE <<f.ops[i - 1]>> \o FillOperandText(f.operands[i]) \o FillTail(f, i + 1)

FillText(f) == <<"=">> \o FillOperandText(f.operands[1]) \o FillTail(f, 2)

\* the formula with every reference moved by rowDiff rows and colDiff columns
Shifted(f, rowDiff, colDiff) ==
    [operands |-> [i \in DOMAIN f.operands |->
                      IF f.operands[i].ref
                      THEN [ref |-> TRUE, col |-> f.operands[i].col + colDiff,
                            row |-> f.operands[i].row + rowDiff]
                      ELSE f.operands[i]],
     ops |-> f.ops]

ColumnsExist(f) ==
    \A i \in DOMAIN f.operands : f.operands[i].ref => f.operands[i].col >= 0

InitFill ==
    /\ inp \in FillFormulas
    /\ \E src \in Keys :
          editedData = [k \in Keys |-> IF k = src THEN FillText(inp) ELSE <<>>]
    /\ calculatedValues = [k \in Keys |-> Absent]
    /\ dependencies = [k \in Keys |-> Absent]
    /\ isDragging = FALSE
    /\ dragStartCell = NoCell
    /\ dragEndCell = NoCell
    /\ timers = <<>>
    /\ op = NoOp
    /\ steps = 0

FillDragStart == steps < MaxFillSteps /\ DragStartStep

FillDragOver == steps < MaxFillSteps /\ DragOverStep

FillDragEnd == steps < MaxFillSteps /\ handleDragEnd

NextFill ==
    \/ FillDragStart
    \/ FillDragOver
    \/ FillDragEnd
    \/ FillTimer

SpecFill == InitFill /\ [][NextFill]_vars

\* the text "=A1+B2" and its fill one row down, "=A2+B3"
TextA1PlusB2 == <<"=", "A", "1", "+", "B", "2">>

TextA2PlusB3 == <<"=", "A", "2", "+", "B", "3">>

FillOfInput == FillDone /\ editedData[dragStartCell] = FillText(inp)

ShiftedTo(c) ==
    Shifted(inp, c[1] - dragStartCell[1], c[2] - dragStartCell[2])

----------------------------------------------------------------------------
(* The grid with its render passes: every handler and every timer callback *)
(* is followed by a render of the component, which reads every cell of the *)
(* materialized rows (rows = rowIndices.map(... getCellValue ...))         *)

\* the cells of the materialized rows in the order the render reads them
RenderedCells == getSelectedCells(<<1, 0>>, <<MaxRow, MaxCol>>)

ApplyRender(r) ==
    /\ dependencies' = r.deps
    /\ calculatedValues' = r.calc
    /\ op' = [op EXCEPT !.rendered = TRUE]

\* one render of Table: every getCellValue call runs in the closure of the
\* state the render started with, the functional updates are applied in order
Render ==
    /\ ~op.rendered
    /\ ApplyRender(DeferredReads(RenderedCells,
                                 [cells |-> <<>>, data |-> editedData,
                                  calc |-> calculatedValues],
                                 dependencies, calculatedValues))
    /\ UNCHANGED <<editedData, isDragging, dragStartCell, dragEndCell,
                   timers, steps, inp>>

\* the raw texts the first column may hold when the page is first looked at:
\* each of them is what edits of the empty grid leave there
StoredInputs == EditInputs \cup {<<>>}

InitRender ==
    /\ \E a \in StoredInputs, b \in StoredInputs :
          editedData = [k \in Keys |->
                           IF k = <<1, 0>> THEN a
                           ELSE IF k = <<2, 0>> THEN b
                           ELSE <<>>]
    /\ calculatedValues = [k \in Keys |-> Absent]
    /\ dependencies = [k \in Keys |-> Absent]
    /\ isDragging = FALSE
    /\ dragStartCell = NoCell
    /\ dragEndCell = NoCell
    /\ timers = <<>>
    /\ op = NoOp
    /\ steps = 0
    /\ inp = <<>>

\* handlers run in one behaviour of the rendered grid
MaxRenderSteps == 4

\* a handler or a timer callback runs on the rendered component
Rendered == op.rendered /\ steps < MaxRenderSteps

\* the edits of the rendered grid go to the first column
RenderEdit ==
    Rendered /\ \E k \in Rows \X {0}, v \in EditInputs : handleCellChange(k, v)

RenderDragStart == Rendered /\ DragStartStep

RenderDragOver == Rendered /\ DragOverStep

RenderDragEnd == Rendered /\ handleDragEnd

RenderTimer == op.rendered /\ FillTimer

RenderNext ==
    \/ Render
    \/ RenderEdit
    \/ RenderDragStart
    \/ RenderDragOver
    \/ RenderDragEnd
    \/ RenderTimer

SpecRender == InitRender /\ [][RenderNext]_vars

----------------------------------------------------------------------------
(* Claims about the rendered grid (SpecRender)                             *)

\* the cache entries a cell may hold for the outcome r of its evaluation
AbsentOr(r) == IF r.set THEN {Absent, r.result} ELSE {Absent}

\* the last handler was an edit of a target of the pending fill
TargetEdited ==
    /\ op.name = "edit"
    /\ timers # <<>>
    /\ op.key \in Range(Head(timers).cells)

\* C11: when an edit of a fill target runs between the fill's commit and its
\* deferred re-read, the deferred step leaves the raw value of the target at
\* the edited text, and the cache of the target is absent or the evaluation of
\* the edited text.
C11_EditWinsOverDeferredRead ==
    [][(TargetEdited /\ op'.name = "timer") =>
          /\ editedData'[op.key] = op.value
          /\ calculatedValues'[op.key] \in
                AbsentOr(getCellValue(op.key, editedData',
                                      [k \in Keys |-> Absent]))]_vars

\* the deferred step of a fill of A1's formula into A2 has run after A2, which
\* held a formula before the fill, was edited to "5"
C11_Witness ==
    /\ op.name = "timer"
    /\ op.cells = << <<2, 0>> >>
    /\ editedData[<<2, 0>>] = <<"5">>
    /\ calculatedValues[<<2, 0>>] = Absent
    /\ dependencies[<<2, 0>>] # Absent
    /\ startsWith(editedData[<<1, 0>>], "=")

----------------------------------------------------------------------------
(* Claims about the termination of the invalidation (Spec)                 *)

\* the cells the formula stored in d refers to
StoredReferences(d, data) ==
    Range(getCellValue(d, data, [k \in Keys |-> Absent]).deps)

\* d refers to k through the stored formulas in at most n steps
RECURSIVE RefersIn(_, _, _, _)
RefersIn(d, k, n, data) ==
    \/ k \in StoredReferences(d, data)
    \/ n > 1 /\ \E x \in Keys :
                   x \in StoredReferences(d, data) /\ RefersIn(x, k, n - 1, data)

\* no stored formula refers back to its own cell
NoStoredCycle(data) ==
    \A k \in Keys : ~RefersIn(k, k, Cardinality(Keys), data)

\* C12: the invalidation started by an edit runs to completion whenever the
\* formulas stored before and after the edit have no circular reference chain.
C12_InvalidationCompletes ==
    [][(EditDone /\ NoStoredCycle(editedData) /\ NoStoredCycle(editedData'))
          => op'.completed]_vars

\* C13: an edit of a cell that lies on a cycle of the recorded dependency map
\* starts an invalidation that does not end.
C13_RecordedCycleNeverEnds ==
    [][(EditDone /\ ReachesIn(op'.key, op'.key, Cardinality(Keys)))
          => ~op'.completed]_vars

\* A1 is recorded as reading B1 and B1 as reading A1; the edit of A1 did not
\* complete
C13_Witness ==
    /\ op.name = "edit" /\ op.key = A1 /\ ~op.completed
    /\ DependsOnRecorded(A1, B1)
    /\ DependsOnRecorded(B1, A1)

----------------------------------------------------------------------------
(* The parser alone: a raw text is drawn and parseFormula is applied       *)

\* characters of a drawn raw text
MaxFormulaLen == 4

FormulaAlphabet == {"=", "A", "1", "2", "+", "-", "*", "/", " "}

TextFive == <<"5">>

TextEqFive == <<"=", "5">>

TextA1PlusB2Raw == <<"=", "A", "1", "+", "B", "2">>

TextA1Times2 == <<"=", "A", "1", "*", "2">>

\* the raw texts handed to the parser
ParserInputs ==
    UNION {[1..n -> FormulaAlphabet] : n \in 0..MaxFormulaLen}
    \cup {TextFive, TextEqFive, TextA1PlusB2Raw, TextA1Times2}

InitParse ==
    /\ inp \in ParserInputs
    /\ editedData = [k \in Keys |-> <<>>]
    /\ calculatedValues = [k \in Keys |-> Absent]
    /\ dependencies = [k \in Keys |-> Absent]
    /\ isDragging = FALSE
    /\ dragStartCell = NoCell
    /\ dragEndCell = NoCell
    /\ timers = <<>>
    /\ op = NoOp
    /\ steps = 0

\* one call parseFormula(rawValue)
ParseStep ==
    /\ op.name = "init"
    /\ op' = [NoOp EXCEPT !.name = "parse", !.value = inp,
                          !.formula = parseFormula(inp)]
    /\ UNCHANGED <<editedData, calculatedValues, dependencies, isDragging,
                   dragStartCell, dragEndCell, timers, steps, inp>>

NextParse == ParseStep

SpecParse == InitParse /\ [][NextParse]_vars

----------------------------------------------------------------------------
(* Claims about the parser (SpecParse)                                     *)

Contains(s, chars) == \E i \in DOMAIN s : s[i] \in chars

ValueOf(operand) == [type |-> "value", value |-> operand, parts |-> <<>>]

ExpressionOf(tokens) == [type |-> "expression", value |-> <<>>, parts |-> tokens]

\* the classification by the operators the text after "=" contains
ByOperators(body) ==
    IF Contains(body, {"+", "-"})
    THEN ExpressionOf(splitKeep(body, {"+", "-"}))
    ELSE IF Contains(body, {"*", "/"})
    THEN ExpressionOf(splitKeep(body, {"*", "/"}))
    ELSE ValueOf(body)

ParsedByOperators(raw) ==
    IF ~startsWith(raw, "=") THEN Null ELSE ByOperators(trim(Tail(raw)))

\* the text after "=" is empty or one operator character
BareBody(body) ==
    body = <<>> \/ (Len(body) = 1 /\ body[1] \in {"+", "-", "*", "/"})

ParseExamples ==
    /\ op.value = TextFive => op.formula = Null
    /\ op.value = TextEqFive => op.formula = ValueOf(<<"5">>)
    /\ op.value = TextA1PlusB2Raw
          => op.formula = ExpressionOf(<< <<"A", "1">>, <<"+">>, <<"B", "2">> >>)
    /\ op.value = TextA1Times2
          => op.formula = ExpressionOf(<< <<"A", "1">>, <<"*">>, <<"2">> >>)

\* C14 as stated: none without "=", a value without operator, the additive
\* split when the formula contains "+" or "-", else the multiplicative split.
C14_ParseByOperators ==
    op.name = "parse" =>
        op.formula = ParsedByOperators(op.value) /\ ParseExamples

\* C14 amended: as stated for every text whose part after "=" is, trimmed,
\* neither empty nor a single operator character; an empty part gives an
\* expression without tokens and a single operator character gives a value.
C14_ParseByTokens ==
    op.name = "parse" =>
        /\ ParseExamples
        /\ ~startsWith(op.value, "=") => op.formula = Null
        /\ (startsWith(op.value, "=") /\ ~BareBody(trim(Tail(op.value))))
              => op.formula = ParsedByOperators(op.value)
        /\ (startsWith(op.value, "=") /\ trim(Tail(op.value)) = <<>>)
              => op.formula = ExpressionOf(<<>>)
        /\ (startsWith(op.value, "=") /\ Len(trim(Tail(op.value))) = 1
            /\ BareBody(trim(Tail(op.value))))
              => op.formula = ValueOf(trim(Tail(op.value)))

\* "=A1+B2" was parsed into its three tokens
C14_Witness ==
    /\ op.name = "parse"
    /\ op.value = TextA1PlusB2Raw
    /\ op.formula.type = "expression"
    /\ op.formula.parts = << <<"A", "1">>, <<"+">>, <<"B", "2">> >>

----------------------------------------------------------------------------
(* The reference codec alone: a column and a row are drawn, written as a   *)
(* reference the way the fill writes one, and decoded by getCellPosition   *)

\* columns 0..MaxCodecCol (A .. AAD) and rows 0..MaxCodecRow are drawn
MaxCodecCol == 705

MaxCodecRow == 12

\* `${newColStr}${newRow}` of lines 293-301 for a column and a row
encodeReference(col, row) == ColLetters(col + 1, <<>>) \o IntToStr(row)

InitCodec ==
    /\ inp \in (0..MaxCodecCol) \X (0..MaxCodecRow)
    /\ editedData = [k \in Keys |-> <<>>]
    /\ calculatedValues = [k \in Keys |-> Absent]
    /\ dependencies = [k \in Keys |-> Absent]
    /\ isDragging = FALSE
    /\ dragStartCell = NoCell
    /\ dragEndCell = NoCell
    /\ timers = <<>>
    /\ op = NoOp
    /\ steps = 0

\* the position decoded from the text, as <<row, col>>; the call throws when
\* the text does not match the pattern
DecodeInto(text) ==
    op' = [NoOp EXCEPT !.name = "codec", !.value = text,
                       !.completed = IsCellRef(text),
                       !.key = IF IsCellRef(text)
                               THEN <<getCellPosition(text).row,
                                      getCellPosition(text).col>>
                               ELSE NoCell]

CodecStep ==
    /\ op.name = "init"
    /\ DecodeInto(encodeReference(inp[1], inp[2]))
    /\ UNCHANGED <<editedData, calculatedValues, dependencies, isDragging,
                   dragStartCell, dragEndCell, timers, steps, inp>>

NextCodec == CodecStep

SpecCodec == InitCodec /\ [][NextCodec]_vars

----------------------------------------------------------------------------
(* Claims about the codec (SpecCodec)                                      *)

----------------------------------------------------------------------------
(* Claims about the reads of the store (SpecEval, Spec)                    *)

ReadDone == steps' = steps + 1 /\ op'.name = "read"

\* the read of k finds no usable cache entry and the evaluation of its
\* formula throws
EvaluationFails(k) ==
    /\ calculatedValues[k] \in {Absent, <<>>}
    /\ startsWith(editedData[k], "=")
    /\ evaluateFormula(parseFormula(editedData[k]), editedData).err # ""

ErrorStrings == {ErrorString("DivisionByZero"), ErrorString("TypeError")}

\* what a read of every cell would return in the given state
ReadsOf(data, calc) == [k \in Keys |-> getCellValue(k, data, calc).ret]

\* C16: a read whose evaluation fails returns an "Error: ..." string, leaves
\* the cache and the dependency map as they were, and does not change what a
\* read of any cell returns.
C16_FailedReadChangesNothing ==
    [][(ReadDone /\ EvaluationFails(op'.key)) =>
          /\ op'.ret \in ErrorStrings
          /\ calculatedValues' = calculatedValues
          /\ dependencies' = dependencies
          /\ editedData' = editedData
          /\ ReadsOf(editedData', calculatedValues')
                = ReadsOf(editedData, calculatedValues)]_vars

\* the read of a chain that divides by zero returned the error string next to
\* the cached result of A1
C16_Witness ==
    /\ ChainWasRead
    /\ op.ret = ErrorString("DivisionByZero")
    /\ calculatedValues[FormulaCell] = Absent
    /\ dependencies[FormulaCell] = Absent
    /\ calculatedValues[A1] = <<"5">>

\* C17: after an edit that completes, the dependency map has no entry for the
\* edited cell and none for any invalidated dependent.
C17_InvalidationDeletesDependencies ==
    [][(EditDone /\ op'.completed) =>
          \A d \in TransitiveDependents(op'.key) :
              dependencies'[d] = Absent]_vars

\* the cells named by the operands of an additive formula text
ReferencesOfText(raw) ==
    {KeyOf(getCellPosition(trim(t))) :
        t \in {x \in Range(splitKeep(trim(Tail(raw)), {"+", "-"})) :
                  IsCellRef(trim(x))}}

\* the read of k evaluates its formula
Evaluates(k) ==
    /\ calculatedValues[k] \in {Absent, <<>>}
    /\ startsWith(editedData[k], "=")

\* C18: a successful evaluation of k replaces the dependency entry of k by
\* the cells its current formula refers to, whatever the entry held before,
\* and changes the entry of no other cell.
C18_DependenciesReplaced ==
    [][(ReadDone /\ Evaluates(op'.key)) =>
          /\ dependencies'[op'.key] # Absent
          /\ Range(dependencies'[op'.key]) = ReferencesOfText(editedData[op'.key])
          /\ \A c \in Keys \ {op'.key} : dependencies'[c] = dependencies[c]]_vars

\* A1 holds "=B1+1" after three or more handler calls and its read recorded
\* B1 alone
C18_Witness ==
    /\ op.name = "read" /\ op.key = A1
    /\ steps >= 4
    /\ editedData[A1] = <<"=", "B", "1", "+", "1">>
    /\ dependencies[A1] = <<B1>>

\* C19: the read of a cell without cache entry whose raw value does not start
\* with "=" returns the raw value and changes no map.
C19_PlainReadChangesNothing ==
    [][(ReadDone /\ calculatedValues[op'.key] = Absent
        /\ ~startsWith(editedData[op'.key], "=")) =>
          /\ op'.ret = editedData[op'.key]
          /\ editedData' = editedData
          /\ calculatedValues' = calculatedValues
          /\ dependencies' = dependencies]_vars

\* the plain value "5" was read and is not cached
C19_Witness ==
    /\ op.name = "read"
    /\ op.ret = <<"5">>
    /\ editedData[op.key] = <<"5">>
    /\ calculatedValues[op.key] = Absent
    /\ dependencies[op.key] = Absent

\* C20: the read of a cell with a non-empty cache entry returns the entry and
\* changes no map; the second of two consecutive reads of one cell returns
\* what the first returned and changes no map.
C20_CachedReadIsStable ==
    [][/\ (ReadDone /\ calculatedValues[op'.key] \notin {Absent, <<>>}) =>
             /\ op'.ret = calculatedValues[op'.key]
             /\ editedData' = editedData
             /\ calculatedValues' = calculatedValues
             /\ dependencies' = dependencies
       /\ (ReadDone /\ op.name = "read" /\ op.key = op'.key) =>
             /\ op'.ret = op.ret
             /\ editedData' = editedData
             /\ calculatedValues' = calculatedValues
             /\ dependencies' = dependencies]_vars

\* A1 = "=A1+1" was read twice in a row and returned its cached "1"
C20_Witness ==
    /\ op.name = "read" /\ op.key = A1
    /\ steps = 3
    /\ editedData[A1] = <<"=", "A", "1", "+", "1">>
    /\ op.ret = <<"1">>
    /\ calculatedValues[A1] = <<"1">>
    /\ \A k \in Keys \ {A1} : editedData[k] = <<>> /\ calculatedValues[k] = Absent

----------------------------------------------------------------------------
(* Claims about mixed and malformed formulas (SpecEval, SpecText)          *)

\* the chain has an additive and a multiplicative operator
MixedChain(c) ==
    /\ \E i \in DOMAIN c.ops : c.ops[i] \in {"+", "-"}
    /\ \E i \in DOMAIN c.ops : c.ops[i] \in {"*", "/"}

\* C21: the read of a formula that mixes additive and multiplicative
\* operators returns "NaN": the operand that still contains "*" or "/"
\* contributes no number.
C21_MixedChainIsNaN ==
    (ChainWasRead /\ MixedChain(inp)) => op.ret = NumToString(NaN)

----------------------------------------------------------------------------
(* Reads of an arbitrary raw text: the text is stored in one cell and the  *)
(* cell is read                                                            *)

\* reads of one behaviour
MaxTextReads == 2

InitText ==
    /\ inp \in ParserInputs
    /\ editedData = [k \in Keys |-> IF k = FormulaCell THEN inp ELSE <<>>]
    /\ calculatedValues = [k \in Keys |-> Absent]
    /\ dependencies = [k \in Keys |-> Absent]
    /\ isDragging = FALSE
    /\ dragStartCell = NoCell
    /\ dragEndCell = NoCell
    /\ timers = <<>>
    /\ op = NoOp
    /\ steps = 0

TextRead == steps < MaxTextReads /\ Read(FormulaCell)

NextText == TextRead

SpecText == InitText /\ [][NextText]_vars

\* a token of letters and digits that has a digit before a letter ("1A")
Malformed(t) ==
    /\ \A i \in DOMAIN t : IsUpper(t[i]) \/ IsDigit(t[i])
    /\ \E i \in DOMAIN t, j \in DOMAIN t :
          i < j /\ IsDigit(t[i]) /\ IsUpper(t[j])

\* the formula text has a malformed reference among its operands
HasMalformedReference(raw) ==
    /\ startsWith(raw, "=")
    /\ \E t \in Range(splitKeep(trim(Tail(raw)), {"+", "-", "*", "/"})) :
          Malformed(trim(t))

\* C22: the read of a formula with a malformed reference token returns an
\* "Error: ..." string and writes no cache entry.
C22_MalformedReferenceFails ==
    (op.name = "read" /\ HasMalformedReference(inp)) =>
        /\ op.ret \in ErrorStrings
        /\ calculatedValues[FormulaCell] = Absent

----------------------------------------------------------------------------
(* Claims about the region and the frame of a fill (Spec)                  *)

\* the cells a release of the drag writes
FillTargets == Box(dragStartCell, dragEndCell) \ {dragStartCell}

\* what the fill writes into the target c
FillValue(c) ==
    IF startsWith(editedData[dragStartCell], "=")
    THEN adjustFormulaForCell(editedData[dragStartCell], dragStartCell, c)
    ELSE editedData[dragStartCell]

----------------------------------------------------------------------------
(* Claims about the commit of a fill on the rendered grid (SpecRender)     *)

\* the step is a drag-release that commits a formula fill
FormulaFillDone ==
    FillDone /\ startsWith(op'.value, "=") /\ op'.cells # <<>>

\* C24: when the batch of a formula fill is committed, every target holds the
\* adjusted formula as raw value and has no cache entry, and the cache entry
\* of every cell that is not a target is what it was before the fill.
C24_FormulaFillCommit ==
    [][FormulaFillDone =>
          /\ \A c \in Range(op'.cells) :
                /\ editedData'[c] =
                      adjustFormulaForCell(op'.value, op'.source, c)
                /\ calculatedValues'[c] = Absent
          /\ \A c \in Keys \ Range(op'.cells) :
                calculatedValues'[c] = calculatedValues[c]]_vars

\* the formula of A1 has just been filled into A2, which had been evaluated
\* before: A2 has lost its cache entry, A1 has kept its own
C24_Witness ==
    /\ op.name = "dragEnd"
    /\ ~op.rendered
    /\ op.source = <<1, 0>>
    /\ op.cells = << <<2, 0>> >>
    /\ startsWith(op.value, "=")
    /\ editedData[<<2, 0>>] = adjustFormulaForCell(op.value, <<1, 0>>, <<2, 0>>)
    /\ dependencies[<<2, 0>>] # Absent
    /\ calculatedValues[<<2, 0>>] = Absent
    /\ calculatedValues[<<1, 0>>] # Absent

\* the step is a drag-release that commits a fill of a plain literal
ValueFillDone ==
    FillDone /\ ~startsWith(op'.value, "=") /\ op'.cells # <<>>

\* C25: after a fill whose source is a plain literal, the read of every
\* target returns that literal, also when the target held a formula with a
\* cached result before the fill.
C25_LiteralFillIsRead ==
    [][ValueFillDone =>
          \A c \in Range(op'.cells) :
             getCellValue(c, editedData', calculatedValues').ret = op'.value]_vars

----------------------------------------------------------------------------
(* The drag released through the window: the effect of lines 395-406       *)
(* installs a mouseup listener when isDragging, dragStartCell or           *)
(* dragEndCell has changed, and the listener calls the handleDragEnd of    *)
(* the render that installed it.  inp holds what that render saw of the    *)
(* raw values and of the cache.                                            *)

InitListener ==
    /\ editedData = [k \in Keys |-> <<>>]
    /\ calculatedValues = [k \in Keys |-> Absent]
    /\ dependencies = [k \in Keys |-> Absent]
    /\ isDragging = FALSE
    /\ dragStartCell = NoCell
    /\ dragEndCell = NoCell
    /\ timers = <<>>
    /\ op = NoOp
    /\ steps = 0
    /\ inp = [data |-> [k \in Keys |-> <<>>], calc |-> [k \in Keys |-> Absent]]

\* handleDragStart, and the effect that runs after the render it causes
SubscribedDragStart(cell) ==
    /\ steps < MaxSteps
    /\ isDragging' = TRUE
    /\ dragStartCell' = cell
    /\ dragEndCell' = cell
    /\ inp' = [data |-> editedData, calc |-> calculatedValues]
    /\ op' = [NoOp EXCEPT !.name = "dragStart", !.key = cell]
    /\ steps' = steps + 1
    /\ UNCHANGED <<editedData, calculatedValues, dependencies, timers>>

\* handleDragOver, and the effect that runs after the render it causes
SubscribedDragOver(cell) ==
    /\ steps < MaxSteps
    /\ isDragging
    /\ dragEndCell' = cell
    /\ inp' = [data |-> editedData, calc |-> calculatedValues]
    /\ op' = [NoOp EXCEPT !.name = "dragOver", !.key = cell]
    /\ steps' = steps + 1
    /\ UNCHANGED <<editedData, calculatedValues, dependencies, isDragging,
                   dragStartCell, timers>>

\* handleFormulaCopy called with the raw values data of the listener's render
ListenerFormulaCopy(targets, sourceCell, sourceValue) ==
    /\ Len(timers) < MaxTimers
    /\ editedData' = FormulaCopyData(inp.data, targets, sourceCell, sourceValue)
    /\ calculatedValues' = DeleteKeys(calculatedValues, Range(targets))
    /\ timers' = Append(timers, [cells |-> targets, data |-> inp.data,
                                 calc |-> inp.calc])

\* handleValueCopy called with the raw values data of the listener's render
ListenerValueCopy(targets, sourceValue) ==
    /\ editedData' = ValueCopyData(inp.data, targets, sourceValue)
    /\ UNCHANGED <<calculatedValues, timers>>

\* handleDragEnd as the listener holds it
ListenerDragEnd(cells, sourceValue) ==
    /\ op' = [NoOp EXCEPT !.name = "mouseUp", !.source = dragStartCell,
                          !.value = sourceValue,
                          !.cells = IF Len(cells) > 1
                                    THEN TargetsOf(cells, dragStartCell)
                                    ELSE <<>>]
    /\ IF Len(cells) > 1
       THEN IF startsWith(sourceValue, "=")
            THEN ListenerFormulaCopy(TargetsOf(cells, dragStartCell),
                                     dragStartCell, sourceValue)
            ELSE ListenerValueCopy(TargetsOf(cells, dragStartCell), sourceValue)
       ELSE UNCHANGED <<editedData, calculatedValues, timers>>
    /\ isDragging' = FALSE
    /\ dragStartCell' = NoCell
    /\ dragEndCell' = NoCell

\* the mouseup listener of the window, and the effect that runs after the
\* render it causes
handleGlobalMouseUp ==
    /\ steps < MaxSteps
    /\ isDragging
    /\ ListenerDragEnd(getSelectedCells(dragStartCell, dragEndCell),
                       RawOf(inp.data, dragStartCell))
    /\ inp' = [data |-> editedData', calc |-> calculatedValues']
    /\ steps' = steps + 1
    /\ UNCHANGED dependencies

ListenerDragStart == \E c \in Keys : SubscribedDragStart(c)

ListenerDragOver == \E c \in Keys : SubscribedDragOver(c)

NextListener ==
    \/ ReadStep
    \/ EditStep
    \/ ListenerDragStart
    \/ ListenerDragOver
    \/ handleGlobalMouseUp
    \/ FillTimer

SpecListener == InitListener /\ [][NextListener]_vars

----------------------------------------------------------------------------
(* Claims about the frame of a fill released through the window            *)
(* (SpecListener)                                                          *)

\* the step is a release through the window that commits a fill
ListenerFillDone == op'.name = "mouseUp" /\ op'.cells # <<>> /\ isDragging

\* C26: a fill changes the raw value of its targets only: the source and
\* every cell outside the region hold after the fill the raw value they held
\* immediately before it, also a value an edit wrote after the drag started.
C26_FillWritesTargetsOnly ==
    [][ListenerFillDone =>
          \A k \in Keys \ Range(op'.cells) :
             editedData'[k] = editedData[k]]_vars

----------------------------------------------------------------------------
(* Claims about shifts that leave the sheet (SpecFill)                     *)

\* a reference of f has a row <= 0 or a column < 0
LeavesSheet(f) ==
    \E i \in DOMAIN f.operands :
        f.operands[i].ref /\ (f.operands[i].row <= 0 \/ f.operands[i].col < 0)

\* what is written for an operand wherever its shift has taken it: no letters
\* for a column below 0, the row number with its sign
WrittenOperand(o) ==
    IF ~o.ref THEN NatToStr(o.row)
    ELSE (IF o.col < 0 THEN <<>> ELSE ColumnName(o.col)) \o IntToStr(o.row)

RECURSIVE WrittenTail(_, _)
WrittenTail(f, i) ==
    IF i > Len(f.operands) THEN <<>>
    ELSE <<f.ops[i - 1]>> \o WrittenOperand(f.operands[i]) \o WrittenTail(f, i + 1)

WrittenText(f) == <<"=">> \o WrittenOperand(f.operands[1]) \o WrittenTail(f, 2)

\* C27: a formula fill never rejects or skips a target because a shifted
\* reference gets a row <= 0 or a column < 0: every cell of the region but the
\* source is a target of the batch and receives the shifted formula as raw
\* value, and the batch completes with its deferred re-read scheduled.
C27_FillNeverRejects ==
    [][(FillOfInput /\ dragStartCell # dragEndCell) =>
          /\ Range(op'.cells) = Box(dragStartCell, dragEndCell) \ {dragStartCell}
          /\ \A c \in Range(op'.cells) : editedData'[c] = WrittenText(ShiftedTo(c))
          /\ timers' = Append(timers, [cells |-> op'.cells, data |-> editedData,
                                       calc |-> calculatedValues])
          /\ ~isDragging']_vars

\* "=A1" in B2 was filled up and to the left: A1 received "=0", a formula
\* whose reference has lost its column and has row 0
C27_Witness ==
    /\ op.name = "dragEnd"
    /\ op.source = <<2, 1>>
    /\ op.value = <<"=", "A", "1">>
    /\ FillText(inp) = op.value
    /\ LeavesSheet(Shifted(inp, -1, -1))
    /\ editedData[<<1, 0>>] = <<"=", "0">>
    /\ editedData[<<1, 1>>] = <<"=", "A", "0">>
    /\ editedData[<<2, 0>>] = <<"=", "1">>
    /\ timers # <<>>

----------------------------------------------------------------------------
(* The fill adjuster alone: a formula, a source cell and a target cell are *)
(* drawn, the formula is adjusted from the source to the target and the    *)
(* result is adjusted from the target back to the source                   *)

\* rows and columns of the cells a formula is adjusted between
MaxAdjustRow == 3

MaxAdjustCol == 2

AdjustCells == (1..MaxAdjustRow) \X (0..MaxAdjustCol)

\* the operands of FillOperands, and the references A9, Z1 and AA10 whose
\* shifts change the number of digits or of letters
AdjustOperands ==
    FillOperands \cup {[ref |-> TRUE, col |-> 0, row |-> 9],
                       [ref |-> TRUE, col |-> 25, row |-> 1],
                       [ref |-> TRUE, col |-> 26, row |-> 10]}

AdjustFormulas ==
    UNION {[operands : [1..n -> AdjustOperands],
            ops : [1..(n - 1) -> {"+", "*"}]] : n \in 1..MaxFillOperands}

\* an operand as the user wrote it: padded, a reference has a 0 before its
\* row number
AdjustOperandText(o, padded) ==
    IF o.ref /\ padded THEN ColumnName(o.col) \o <<"0">> \o IntToStr(o.row)
    ELSE FillOperandText(o)

RECURSIVE AdjustTail(_, _, _)
AdjustTail(f, i, padded) ==
    IF i > Len(f.operands) THEN <<>>
    ELSE <<f.ops[i - 1]>> \o AdjustOperandText(f.operands[i], padded)
         \o AdjustTail(f, i + 1, padded)

AdjustText(f, padded) ==
    <<"=">> \o AdjustOperandText(f.operands[1], padded) \o AdjustTail(f, 2, padded)

InitAdjust ==
    /\ \E f \in AdjustFormulas, padded \in BOOLEAN,
          s \in AdjustCells, t \in AdjustCells :
          inp = [f |-> f, padded |-> padded, formula |-> AdjustText(f, padded),
                 s |-> s, t |-> t]
    /\ editedData = [k \in Keys |-> <<>>]
    /\ calculatedValues = [k \in Keys |-> Absent]
    /\ dependencies = [k \in Keys |-> Absent]
    /\ isDragging = FALSE
    /\ dragStartCell = NoCell
    /\ dragEndCell = NoCell
    /\ timers = <<>>
    /\ op = NoOp
    /\ steps = 0

\* adjustFormulaForCell(formula, s, t)
AdjustStep ==
    /\ op.name = "init"
    /\ op' = [NoOp EXCEPT !.name = "adjust", !.source = inp.s, !.key = inp.t,
                          !.value = adjustFormulaForCell(inp.formula,
                                                         inp.s, inp.t)]
    /\ UNCHANGED <<editedData, calculatedValues, dependencies, isDragging,
                   dragStartCell, dragEndCell, timers, steps, inp>>

\* adjustFormulaForCell(adjusted, t, s)
AdjustBackStep ==
    /\ op.name = "adjust"
    /\ op' = [op EXCEPT !.name = "adjustBack",
                        !.ret = adjustFormulaForCell(op.value, inp.t, inp.s)]
    /\ UNCHANGED <<editedData, calculatedValues, dependencies, isDragging,
                   dragStartCell, dragEndCell, timers, steps, inp>>

NextAdjust ==
    \/ AdjustStep
    \/ AdjustBackStep

SpecAdjust == InitAdjust /\ [][NextAdjust]_vars

----------------------------------------------------------------------------
(* Claims about the fill adjuster (SpecAdjust)                             *)

\* every reference of f has a column >= 0 and a row >= 0
StaysInRange(f) ==
    \A i \in DOMAIN f.operands :
        f.operands[i].ref => (f.operands[i].col >= 0 /\ f.operands[i].row >= 0)

\* C28: for a formula whose references are written without leading zeros,
\* adjusting from s to t and adjusting the result from t back to s gives the
\* original text when every shifted reference has column >= 0 and row >= 0,
\* and adjusting with t = s returns the formula unchanged.
C28_AdjustmentInverts ==
    /\ (op.name = "adjustBack" /\ ~inp.padded
        /\ StaysInRange(Shifted(inp.f, inp.t[1] - inp.s[1], inp.t[2] - inp.s[2])))
          => op.ret = inp.formula
    /\ (op.name = "adjust" /\ ~inp.padded /\ inp.s = inp.t)
          => op.value = inp.formula

\* "=Z9+A1" was adjusted from A1 to B2, which gave "=AA10+B2", and back
C28_Witness ==
    /\ op.name = "adjustBack"
    /\ ~inp.padded
    /\ inp.s = <<1, 0>>
    /\ inp.t = <<2, 1>>
    /\ inp.formula = <<"=", "Z", "9", "+", "A", "1">>
    /\ op.value = <<"=", "A", "A", "1", "0", "+", "B", "2">>
    /\ op.ret = inp.formula

----------------------------------------------------------------------------
(* The editing widget (EditableCell) on the rendered grid.  One input has  *)
(* the focus at a time, so one widget is editing at a time; its two state  *)
(* fields are read from op: the widget of cell op.key is editing after a   *)
(* double click or a keystroke, and the last value given to setInputValue  *)
(* (or emitted, which is the same text) is op.value.                       *)

WidgetCells == Rows \X {0}

isEditing == op.name \in {"doubleClick", "input"}

inputValue == op.value

\* rawValue || value of the props the render handed to the widget of cell
InitialInput(cell) ==
    IF RawOf(editedData, cell) # <<>> THEN RawOf(editedData, cell)
    ELSE getCellValue(cell, editedData, calculatedValues).ret

\* the widget sets its own state: Table is not rendered again
WidgetSets(name, cell, text) ==
    /\ op' = [NoOp EXCEPT !.name = name, !.key = cell, !.value = text,
                          !.rendered = TRUE]
    /\ UNCHANGED <<editedData, calculatedValues, dependencies, isDragging,
                   dragStartCell, dragEndCell, timers, steps, inp>>

\* a double click on a cell that shows its span, or on the input of the
\* widget that is editing
handleDoubleClick(cell) ==
    /\ op.rendered
    /\ isEditing => op.key = cell
    /\ WidgetSets("doubleClick", cell, InitialInput(cell))

\* onChange of the input: setInputValue(e.target.value)
InputChange(text) ==
    /\ isEditing
    /\ WidgetSets("input", op.key, text)

\* an escape handler that hands the restored text to onChange
handleEscapeKey_Emitting ==
    /\ Rendered
    /\ isEditing
    /\ handleCellChange(op.key, InitialInput(op.key))

handleEscapeKey ==
    /\ isEditing
    /\ WidgetSets("escape", op.key, InitialInput(op.key))

\* setIsEditing(false); onChange(inputValue), where onChange is the
\* handleCellChange of the cell
handleEnterKey ==
    /\ Rendered
    /\ isEditing
    /\ handleCellChange(op.key, inputValue)

handleBlur ==
    /\ Rendered
    /\ isEditing
    /\ handleCellChange(op.key, inputValue)

WidgetDoubleClick == \E c \in WidgetCells : handleDoubleClick(c)

WidgetInput == \E text \in StoredInputs : InputChange(text)

NextWidget ==
    \/ Render
    \/ WidgetDoubleClick
    \/ WidgetInput
    \/ handleEnterKey
    \/ handleBlur
    \/ handleEscapeKey

SpecWidget == InitRender /\ [][NextWidget]_vars

----------------------------------------------------------------------------
(* Claims about the editing widget (SpecWidget)                            *)

\* C29: the widget emits an edit only on commit, by Enter or by blur, and
\* with the text currently in the input; Escape leaves the editing mode
\* without emitting an edit, so the raw values and the caches are unchanged
\* by a cancelled edit.
C29_EditOnlyOnCommit ==
    [][/\ (op'.name = "edit" /\ steps' = steps + 1) =>
              (isEditing /\ op'.key = op.key /\ op'.value = inputValue
               /\ editedData'[op.key] = inputValue)
       /\ (isEditing /\ op'.name = "escape") =>
              /\ ~isEditing'
              /\ editedData' = editedData
              /\ calculatedValues' = calculatedValues
              /\ dependencies' = dependencies
       /\ (steps' = steps /\ op'.name # "edit") =>
              editedData' = editedData]_vars

\* the edit of A1, which holds "5" and is referred to by the cached formula
\* of A2, has been cancelled
C29_Witness ==
    /\ op.name = "escape"
    /\ op.key = <<1, 0>>
    /\ op.value = <<"5">>
    /\ editedData[<<1, 0>>] = <<"5">>
    /\ editedData[<<2, 0>>] = <<"=", "A", "1", "+", "1">>
    /\ calculatedValues[<<2, 0>>] = <<"6">>
    /\ steps = 0

----------------------------------------------------------------------------
(* Claims about the drag state (Spec)                                      *)

\* isCellSelected of lines 377-392 for the cell <<row, col>>
isCellSelected(cell) ==
    IF ~isDragging \/ dragStartCell = NoCell \/ dragEndCell = NoCell
    THEN FALSE
    ELSE /\ cell[1] >= Min(dragStartCell[1], dragEndCell[1])
         /\ cell[1] <= Max(dragStartCell[1], dragEndCell[1])
         /\ cell[2] >= Min(dragStartCell[2], dragEndCell[2])
         /\ cell[2] <= Max(dragStartCell[2], dragEndCell[2])

DragOverDone == steps' = steps + 1 /\ op'.name = "dragOver"

DragEndDone == steps' = steps + 1 /\ op'.name = "dragEnd"

\* C30: the drag state stays consistent: whenever isDragging is true both
\* dragStartCell and dragEndCell are set; a drag-over changes dragEndCell only
\* while dragging and never changes dragStartCell; after a drag-end isDragging
\* is false, both cells are null and no cell is reported as selected.
C30_DragStateConsistent ==
    [][/\ isDragging' => (dragStartCell' # NoCell /\ dragEndCell' # NoCell)
       /\ isDragging' =>
             \A c \in Keys :
                isCellSelected(c)' <=> c \in Box(dragStartCell', dragEndCell')
       /\ DragOverDone =>
             /\ isDragging /\ isDragging'
             /\ dragStartCell' = dragStartCell
             /\ dragEndCell' = op'.key
       /\ (~isDragging /\ ~isDragging') =>
             (dragStartCell' = NoCell /\ dragEndCell' = NoCell)
       /\ DragEndDone =>
             /\ ~isDragging'
             /\ dragStartCell' = NoCell
             /\ dragEndCell' = NoCell
             /\ \A c \in Keys : ~isCellSelected(c)']_vars

\* a drag from A1 over B2 has been released: the fill has run and the drag
\* state is cleared
C30_Witness ==
    /\ op.name = "dragEnd"
    /\ op.source = <<1, 0>>
    /\ Range(op.cells) = {<<1, 1>>, <<2, 0>>, <<2, 1>>}
    /\ ~isDragging
    /\ dragStartCell = NoCell
    /\ dragEndCell = NoCell
    /\ \A c \in Keys : ~isCellSelected(c)

----------------------------------------------------------------------------
(* Row loading (useScroll, part_003).  inp holds the state of the hook:    *)
(* items, hasMore, isLoading, the number of pending load timers, and what  *)
(* the installed callbacks have captured.  A callback sees the items       *)
(* length, isLoading and hasMore of the render whose effects installed it; *)
(* the effects of a later render run as a step of their own, so a callback *)
(* may be called between a state change and the effects that replace it.   *)

\* TOTAL_ROWS and BATCH_SIZE of App.tsx lines 11 and 13, scaled down
totalItems == 4

batchSize == 2

\* loadMore calls of one behaviour
MaxLoadCalls == 5

items == inp.items

hasMore == inp.hasMore

isLoading == inp.isLoading

\* what a callback created by the render of state st has captured
ClosureOf(st) ==
    [len |-> Len(st.items), isLoading |-> st.isLoading, hasMore |-> st.hasMore]

\* the observer is not created when disabled = !hasMore || isLoading
ObserverOf(st) ==
    [installed |-> st.hasMore /\ ~st.isLoading, closure |-> ClosureOf(st)]

\* loadMore of the render with closure c, applied to the state st
loadMore(c, st) ==
    IF c.len >= totalItems \/ c.isLoading
    THEN IF c.len >= totalItems THEN [st EXCEPT !.hasMore = FALSE] ELSE st
    ELSE [st EXCEPT !.isLoading = TRUE, !.loads = @ + 1]

\* a batch whose identifiers start at 1 again
AppendBatch_Restart(prev) == prev \o [i \in 1..batchSize |-> i]

\* the updater of setItems: prev followed by prev.length + 1 .. + batchSize
AppendBatch(prev) == prev \o [i \in 1..batchSize |-> Len(prev) + i]

InitScroll ==
    /\ inp = [items |-> <<>>, hasMore |-> TRUE, isLoading |-> FALSE,
              loads |-> 0, mounted |-> FALSE,
              scroll |-> [len |-> 0, isLoading |-> FALSE, hasMore |-> TRUE],
              observer |-> [installed |-> FALSE,
                            closure |-> [len |-> 0, isLoading |-> FALSE,
                                         hasMore |-> TRUE]]]
    /\ editedData = [k \in Keys |-> <<>>]
    /\ calculatedValues = [k \in Keys |-> Absent]
    /\ dependencies = [k \in Keys |-> Absent]
    /\ isDragging = FALSE
    /\ dragStartCell = NoCell
    /\ dragEndCell = NoCell
    /\ timers = <<>>
    /\ op = NoOp
    /\ steps = 0

\* a step of the hook: st is its state afterwards
ScrollSets(name, st, calls) ==
    /\ inp' = st
    /\ op' = [NoOp EXCEPT !.name = name]
    /\ steps' = steps + calls
    /\ UNCHANGED <<editedData, calculatedValues, dependencies, isDragging,
                   dragStartCell, dragEndCell, timers>>

\* the effects of the first commit: the observer and the scroll listener are
\* installed and the initial load calls loadMore (items.length === 0)
MountEffects ==
    /\ ~inp.mounted
    /\ ScrollSets("mount",
                  loadMore(ClosureOf(inp),
                           [inp EXCEPT !.mounted = TRUE,
                                       !.scroll = ClosureOf(inp),
                                       !.observer = ObserverOf(inp)]),
                  1)

\* the effects of a later commit: the scroll listener and the observer of
\* the render before are removed and those of the current render installed
RunEffects ==
    /\ inp.mounted
    /\ inp.scroll # ClosureOf(inp) \/ inp.observer # ObserverOf(inp)
    /\ ScrollSets("effects",
                  [inp EXCEPT !.scroll = ClosureOf(inp),
                              !.observer = ObserverOf(inp)],
                  0)

\* a scroll event past 80% of the content
handleScroll ==
    /\ inp.mounted
    /\ steps < MaxLoadCalls
    /\ ~inp.scroll.isLoading
    /\ inp.scroll.hasMore
    /\ ScrollSets("scroll", loadMore(inp.scroll, inp), 1)

\* the observer reports the sentinel as intersecting
onIntersect ==
    /\ inp.mounted
    /\ steps < MaxLoadCalls
    /\ inp.observer.installed
    /\ ScrollSets("intersect", loadMore(inp.observer.closure, inp), 1)

\* the setTimeout callback of lines 22-28
LoadTimer ==
    /\ inp.loads > 0
    /\ ScrollSets("loaded",
                  [inp EXCEPT !.items = AppendBatch(@), !.isLoading = FALSE,
                              !.loads = @ - 1],
                  0)

NextScroll ==
    \/ MountEffects
    \/ RunEffects
    \/ handleScroll
    \/ onIntersect
    \/ LoadTimer

SpecScroll == InitScroll /\ [][NextScroll]_vars

----------------------------------------------------------------------------
(* Claims about the row loading (SpecScroll)                               *)

\* C31: under every interleaving of loadMore calls and load-timer
\* completions the materialized row identifiers are exactly 1, 2, ..., n in
\* order, with no gap and no duplicate, n being a multiple of the batch size.
C31_RowsAreConsecutive ==
    /\ \A i \in DOMAIN items : items[i] = i
    /\ Len(items) % batchSize = 0

\* two loads were started from the same render and both have completed
C31_Witness ==
    /\ op.name = "loaded"
    /\ steps = 2
    /\ inp.loads = 0
    /\ Len(items) = 2 * batchSize
    /\ items[Len(items)] = 2 * batchSize

\* the step is a loadMore call
LoadMoreCalled == steps' = steps + 1

\* C32: a loadMore call made while a load is in progress, or once all
\* totalItems rows are loaded, appends nothing: at most one load timer is
\* pending at any time and the number of rows never exceeds totalItems.
C32_OneLoadAtATime ==
    [][/\ (LoadMoreCalled /\ (isLoading \/ Len(items) >= totalItems)) =>
              inp'.loads = inp.loads
       /\ inp'.loads <= 1
       /\ Len(inp'.items) <= totalItems]_vars

====
